---- MODULE Spec2Model ----
(***************************************************************************)
(* Similarity-to-embedding engine of the essential-oil blender.            *)
(*                                                                         *)
(* Three generators collect pairwise similarities from an external oracle  *)
(* process and turn them into distances:                                   *)
(*   LLM   - LLMScentEmbeddings   (llmScentEmbeddings.js), with the        *)
(*           persisted similarity cache, scale 0..100                      *)
(*   Fast  - FastAIDemo           (generateFastAIDemo.js), scale 0..1      *)
(*   Notes - AINotesVisualization (testAISimilarity.js),   scale 0..1      *)
(* One behaviour runs one generator (prog).                                *)
(*                                                                         *)
(* Numbers.  Similarities on the 0..1 scale are held as integers in units  *)
(* of 1/Unit; distances of the LLM generator are held in hundredths, so    *)
(* (100 - s) / 100 is the integer 100 - s.                                 *)
(*                                                                         *)
(* Events.  A handler that runs for an invocation whose promise has        *)
(* settled changes nothing.  The timeout timers that outlive their         *)
(* invocation are kept (lateTimers), because timers fire in the order they *)
(* were armed; a 'close' event after the promise settled is no step.       *)
(***************************************************************************)
EXTENDS Integers, Sequences, FiniteSets, TLC

VARIABLES
  prog,             \* which generator this behaviour runs
  pc,               \* position of the generator's async function
  i, j,             \* loop indexes of the pair loop (1-based)
  similarityMatrix, \* LLMScentEmbeddings.similarityMatrix (in memory)
  cacheFile,        \* contents of similarity_cache.json
  processedPairs,   \* generateSimilarityMatrix's counter
  similarities,     \* FastAIDemo / AINotesVisualization .similarities
  completed,        \* generateSimilarities' counter
  call,             \* the oracle invocation being awaited
  lateTimers,       \* timeout timers of settled invocations, not yet fired
  lastEvent,        \* how the last invocation settled
  lastReturn,       \* what the last getSimilarityScore call of an outside caller returned
  lastWrite,        \* how the last saveCache of this instance ended
  distances,        \* the distance matrix built from the similarities
  calc,             \* the last application of a function of the pipeline to an input
  llmService,       \* the fields of the LLMService singleton
  inflight          \* asynchronous operations not yet settled, and the promises handed out

vars == <<prog, pc, i, j, similarityMatrix, cacheFile, processedPairs,
          similarities, completed, call, lateTimers, lastEvent,
          lastReturn, lastWrite, distances, calc, llmService, inflight>>

(***************************************************************************)
(* Bounds                                                                  *)
(***************************************************************************)
NumOils == 3

\* the number of compareSimilarity requests of a behaviour of the service
MaxRequests == 2

\* the number of oracle processes concurrent callers may spawn
MaxCalls == 3

\* the number of oils of the catalog on which the periodic save is observed
ManyOils == 4

\* the number of shutdown() calls that may be awaiting store.close() at once
MaxCloses == 1

(***************************************************************************)
(* The catalog (essentialOils.js): an excerpt, in a fixed order.           *)
(***************************************************************************)
essentialOils ==
  [ lavender   |-> [notes |-> <<"floral", "fresh", "calming", "sweet", "herbaceous">>,
                    intensity |-> "medium", category |-> "floral",
                    description |-> "Classic calming floral with sweet undertones"],
    rose       |-> [notes |-> <<"floral", "romantic", "sweet", "classic", "feminine">>,
                    intensity |-> "medium", category |-> "floral",
                    description |-> "Timeless romantic floral sweetness"],
    bergamot   |-> [notes |-> <<"citrus", "fresh", "uplifting", "bright", "earl grey">>,
                    intensity |-> "light", category |-> "citrus",
                    description |-> "Bright citrus with distinctive Earl Grey tea character"],
    sandalwood |-> [notes |-> <<"woody", "warm", "creamy", "sweet", "base">>,
                    intensity |-> "heavy", category |-> "woody",
                    description |-> "Rich, creamy wood with lasting warmth"],
    cedarwood  |-> [notes |-> <<"woody", "dry", "warm", "grounding", "pencil shavings">>,
                    intensity |-> "medium", category |-> "woody",
                    description |-> "Dry, warm wood with grounding qualities"],
    peppermint |-> [notes |-> <<"minty", "cooling", "fresh", "invigorating", "sharp">>,
                    intensity |-> "strong", category |-> "herbal",
                    description |-> "Intensely cooling and refreshing mint"],
    jasmine    |-> [notes |-> <<"floral", "intoxicating", "sweet", "night-blooming", "exotic">>,
                    intensity |-> "heavy", category |-> "floral",
                    description |-> "Intoxicatingly sweet night floral"] ]

OilOrder == <<"lavender", "rose", "bergamot", "sandalwood", "cedarwood">>

\* this.oilNames / this.demoOils / this.oils: the identifiers in catalog order
oilNames == SubSeq(OilOrder, 1, NumOils)

Oils == {oilNames[k] : k \in 1..Len(oilNames)}

\* UTF-16 code units of an identifier (what sort() and join() work on)
CodeUnits(name) ==
  CASE name = "lavender"   -> <<108, 97, 118, 101, 110, 100, 101, 114>>
    [] name = "rose"       -> <<114, 111, 115, 101>>
    [] name = "bergamot"   -> <<98, 101, 114, 103, 97, 109, 111, 116>>
    [] name = "sandalwood" -> <<115, 97, 110, 100, 97, 108, 119, 111, 111, 100>>
    [] name = "cedarwood"  -> <<99, 101, 100, 97, 114, 119, 111, 111, 100>>

(***************************************************************************)
(* JavaScript values held in cache entries                                 *)
(***************************************************************************)
Undef    == [k |-> "undefined", n |-> 0, s |-> ""]
Num(n)   == [k |-> "number", n |-> n, s |-> ""]
Str(s)   == [k |-> "string", n |-> 0, s |-> s]

\* an entry object {oil1, oil2, similarity, reasoning, timestamp}
Entry(o1, o2, sim, why, ts) ==
  [t |-> "object", oil1 |-> o1, oil2 |-> o2, similarity |-> sim,
   reasoning |-> why, timestamp |-> ts]

\* the value null (a cache file may hold it in place of an entry)
NullValue ==
  [t |-> "null", oil1 |-> Undef, oil2 |-> Undef, similarity |-> Undef,
   reasoning |-> Undef, timestamp |-> Undef]

\* the value undefined (what reading an absent key yields)
UndefinedValue ==
  [t |-> "undefined", oil1 |-> Undef, oil2 |-> Undef, similarity |-> Undef,
   reasoning |-> Undef, timestamp |-> Undef]

Fields == {"oil1", "oil2", "similarity", "reasoning", "timestamp"}

\* JavaScript truthiness of a value found under a key
Truthy(v) == v.t = "object"

(***************************************************************************)
(* getSimilarityKey: [oil1, oil2].sort().join('|')                         *)
(***************************************************************************)
RECURSIVE StrLess(_, _)
\* a < b in the default sort order: code unit by code unit, a proper prefix first
StrLess(a, b) ==
  IF b = <<>> THEN FALSE
  ELSE IF a = <<>> THEN TRUE
  ELSE IF Head(a) # Head(b) THEN Head(a) < Head(b)
  ELSE StrLess(Tail(a), Tail(b))

\* [a, b].sort()
Sort2(a, b) == IF StrLess(CodeUnits(b), CodeUnits(a)) THEN <<b, a>> ELSE <<a, b>>

\* pair.join(sep)
Join(pair, sep) == CodeUnits(pair[1]) \o <<sep>> \o CodeUnits(pair[2])

\* variant for sensitivity checks: the pair is joined without being sorted
getSimilarityKeyUnsorted(oil1, oil2) == Join(<<oil1, oil2>>, 124)

getSimilarityKey(oil1, oil2) == Join(Sort2(oil1, oil2), 124)

(***************************************************************************)
(* The in-memory similarity matrix.  loadCache assigns whatever the file   *)
(* holds under "similarityMatrix", so besides a plain object it can be an  *)
(* array or a truthy primitive.                                            *)
(***************************************************************************)
NoEntries == [k \in {} |-> UndefinedValue]

EmptyMatrix == [kind |-> "object", ent |-> NoEntries]

\* this.similarityMatrix[key]
Get(m, key) ==
  IF m.kind # "primitive" /\ key \in DOMAIN m.ent THEN m.ent[key] ELSE UndefinedValue

\* this.similarityMatrix[key] = v  succeeds; on a primitive it throws a
\* TypeError (class bodies are strict code)
CanPut(m) == m.kind # "primitive"

Put(m, key, v) ==
  [m EXCEPT !.ent = [k \in DOMAIN m.ent \cup {key} |-> IF k = key THEN v ELSE m.ent[k]]]

\* variant for sensitivity checks: the cache is never consulted
CachedNever(m, key) == FALSE

\* getSimilarityScore's test `if (this.similarityMatrix[key])`
Cached(m, key) == Truthy(Get(m, key))

(***************************************************************************)
(* JSON text of the cache file                                             *)
(***************************************************************************)
\* JSON.stringify of a value under a key: the members that are not undefined
StringifyValue(v) ==
  [t |-> v.t, members |-> {<<f, v[f]>> : f \in {g \in Fields : v.t = "object" /\ v[g].k # "undefined"}}]

\* the member f of a parsed object, undefined when the text has none
Member(text, f) ==
  IF \E m \in text.members : m[1] = f
  THEN (CHOOSE m \in text.members : m[1] = f)[2]
  ELSE Undef

\* JSON.parse of a value under a key
ParseValue(text) ==
  [t |-> text.t, oil1 |-> Member(text, "oil1"), oil2 |-> Member(text, "oil2"),
   similarity |-> Member(text, "similarity"), reasoning |-> Member(text, "reasoning"),
   timestamp |-> Member(text, "timestamp")]

\* JSON.stringify of the similarityMatrix member: an object writes its own
\* properties, an array writes its elements only (none here), a primitive
\* writes itself
StringifyMatrix(m) ==
  [kind |-> m.kind,
   members |-> IF m.kind = "object"
               THEN {<<k, StringifyValue(m.ent[k])>> : k \in DOMAIN m.ent}
               ELSE {}]

\* JSON.parse of the similarityMatrix member (kinds "absent" and "null" are
\* falsy and never reach this)
ParseMatrix(text) ==
  [kind |-> text.kind,
   ent |-> [k \in {m[1] : m \in text.members} |->
             ParseValue((CHOOSE m \in text.members : m[1] = k)[2])]]

NoMembers == {}

\* file states: no file; a file that cannot be read; a file with text
FileMissing    == [state |-> "missing",    root |-> "none",    sm |-> [kind |-> "absent", members |-> NoMembers]]
FileUnreadable == [state |-> "unreadable", root |-> "none",    sm |-> [kind |-> "absent", members |-> NoMembers]]
\* text that is not JSON (garbage, or a write cut short)
FileInvalid    == [state |-> "text",       root |-> "invalid", sm |-> [kind |-> "absent", members |-> NoMembers]]
\* the text "null"
FileNullRoot   == [state |-> "text",       root |-> "null",    sm |-> [kind |-> "absent", members |-> NoMembers]]
\* a JSON object whose similarityMatrix member is smText
FileObject(smText) == [state |-> "text",   root |-> "object",  sm |-> smText]

(***************************************************************************)
(* loadCache / saveCache                                                   *)
(***************************************************************************)
\* loadCache: the matrix the instance holds afterwards.  A missing file
\* returns false; a read error, a JSON syntax error and the TypeError of
\* null.similarityMatrix are caught; `cached.similarityMatrix || {}` replaces
\* a falsy member by {} and keeps any truthy one.
loadCache(m, file) ==
  IF file.state = "text" /\ file.root = "object"
  THEN IF file.sm.kind \in {"absent", "null"} THEN EmptyMatrix ELSE ParseMatrix(file.sm)
  ELSE m

\* what fs.writeFileSync does: writes the text, or fails leaving the file
\* as it was
WriteOutcomes == {"written", "failed"}

\* saveCache: the file afterwards (an error of the write is caught).  The
\* timestamp and oilCount members it also writes are never read back.
saveCache(m, file, w) ==
  IF w = "written" THEN FileObject(StringifyMatrix(m)) ELSE file

(***************************************************************************)
(* The pair loop:  for i in 0..n-1, for j in i+1..n-1  (1-based here)      *)
(***************************************************************************)
nOils == Len(oilNames)

Finished(a, b) == ~(a < b /\ b <= nOils)

FirstPos == IF nOils >= 2 THEN <<1, 2>> ELSE <<nOils + 1, nOils + 2>>

\* the position after (a, b) in the double loop over n names
positionAfter(a, b, n) ==
  IF b < n THEN <<a, b + 1>>
  ELSE IF a + 2 <= n THEN <<a + 1, a + 2>>
  ELSE <<n + 1, n + 2>>

NextPos(a, b) == positionAfter(a, b, nOils)

Advance ==
  /\ i' = NextPos(i, j)[1]
  /\ j' = NextPos(i, j)[2]

(***************************************************************************)
(* Oracle invocations                                                      *)
(***************************************************************************)
NoCall == [active |-> FALSE, oil1 |-> "", oil2 |-> "", caller |-> "", back |-> "", fate |-> ""]

\* what becomes of a spawned process: it closes by itself, it never does, or
\* it could not be spawned
Fates == {"exits", "hangs", "spawnfails"}

\* no distance matrix built yet
NoDistances == [a \in {} |-> [b \in {} |-> 0]]

\* new LLMService(): nothing loaded, nothing queued
NewService ==
  [model |-> "null", store |-> "null", isLoaded |-> FALSE, isLoading |-> FALSE,
   queue |-> <<>>]

\* nothing awaited, no promise handed out
NothingInFlight ==
  [loads |-> 0, closes |-> 0, runs |-> {},
   promise |-> [r \in 1..MaxRequests |-> "none"],
   processes |-> {}, shutdownDone |-> FALSE]

\* no function applied yet
NoCalc == [op |-> "none", input |-> <<>>, output |-> <<>>]

\* the function op, applied to input, returned output
Calc(op, input, output) == [op |-> op, input |-> input, output |-> output]

NoEvent == [oil1 |-> "", oil2 |-> "", caller |-> "", kind |-> "none", out |-> "none"]

Event(o1, o2, who, kind, out) ==
  [oil1 |-> o1, oil2 |-> o2, caller |-> who, kind |-> kind, out |-> out]

NoReturn == [oil1 |-> "", oil2 |-> "", state |-> "none", value |-> UndefinedValue]

\* similarity values the LLM oracle (scentSimilarityBare.js) reports
OracleSims == {Num(0), Num(100)}

\* stdout of the LLM oracle: text holding a JSON object, text without one,
\* text whose {...} part does not parse
LLMOutputs ==
  {[kind |-> "json", similarity |-> s] : s \in OracleSims}
    \cup {[kind |-> "nojson", similarity |-> Undef], [kind |-> "badjson", similarity |-> Undef]}

ExitCodes == {0, 1}

\* the entry built from the oracle's result
OracleEntry(o1, o2, out) == Entry(Str(o1), Str(o2), out.similarity, Str("llm"), Str("t"))

sameCategory(o1, o2) == essentialOils[o1].category = essentialOils[o2].category

\* the fallback similarity of generateSimilarityMatrix's catch block for the
\* catalog records data1 and data2
llmFallbackOf(data1, data2) == IF data1.category = data2.category THEN 60 ELSE 30

\* the fallback entry of generateSimilarityMatrix's catch block
FallbackEntry(o1, o2) ==
  Entry(Str(o1), Str(o2),
        Num(llmFallbackOf(essentialOils[o1], essentialOils[o2])),
        IF sameCategory(o1, o2) THEN Str("Fallback score: same category")
                                ELSE Str("Fallback score: different categories"),
        Str("now"))

(***************************************************************************)
(* LLMScentEmbeddings.generateSimilarityMatrix                             *)
(***************************************************************************)
FNUnchanged == UNCHANGED <<similarities, completed, lateTimers, calc, llmService, inflight>>

\* generateSimilarityMatrix up to its loop: loadCache()
LoadCache ==
  /\ prog = "LLM" /\ pc = "start"
  /\ similarityMatrix' = loadCache(similarityMatrix, cacheFile)
  /\ processedPairs' = 0
  /\ i' = FirstPos[1] /\ j' = FirstPos[2]
  /\ pc' = "loop"
  /\ UNCHANGED <<prog, cacheFile, call, lastEvent, lastReturn,
                 lastWrite, distances>>
  /\ FNUnchanged

\* the try body after `await getSimilarityScore` returned: count the pair
\* and save the cache every fifth counted pair
PairDone(m) ==
  /\ similarityMatrix' = m
  /\ processedPairs' = processedPairs + 1
  /\ IF processedPairs' % 5 = 0
     THEN \E w \in WriteOutcomes :
            /\ cacheFile' = saveCache(m, cacheFile, w)
            /\ lastWrite' = w
     ELSE UNCHANGED <<cacheFile, lastWrite>>
  /\ Advance
  /\ pc' = "loop"

\* the catch block: store the fallback entry.  On a primitive matrix the
\* store throws inside the catch block and generateSimilarityMatrix rejects.
PairFailed ==
  /\ IF CanPut(similarityMatrix)
     THEN /\ similarityMatrix' =
               Put(similarityMatrix, getSimilarityKey(call.oil1, call.oil2),
                   FallbackEntry(call.oil1, call.oil2))
          /\ Advance
          /\ pc' = "loop"
     ELSE /\ pc' = "aborted"
          /\ UNCHANGED <<similarityMatrix, i, j>>
  /\ UNCHANGED <<processedPairs, cacheFile, lastWrite>>

\* getSimilarityScore finds `this.similarityMatrix[key]` truthy and returns it
PairCached ==
  /\ prog = "LLM" /\ pc = "loop" /\ ~Finished(i, j)
  /\ Cached(similarityMatrix, getSimilarityKey(oilNames[i], oilNames[j]))
  /\ PairDone(similarityMatrix)
  /\ lastEvent' = Event(oilNames[i], oilNames[j], "loop", "cached", "none")
  /\ UNCHANGED <<prog, call, lastReturn, distances>>
  /\ FNUnchanged

\* getSimilarityScore spawns the oracle and the loop awaits its promise
PairSpawn ==
  /\ prog = "LLM" /\ pc = "loop" /\ ~Finished(i, j)
  /\ ~Cached(similarityMatrix, getSimilarityKey(oilNames[i], oilNames[j]))
  /\ \E f \in Fates :
       call' = [active |-> TRUE, oil1 |-> oilNames[i], oil2 |-> oilNames[j],
                caller |-> "loop", back |-> "loop", fate |-> f]
  /\ pc' = "awaiting"
  /\ UNCHANGED <<prog, i, j, similarityMatrix, cacheFile, processedPairs,
                 lastEvent, lastReturn, lastWrite, distances>>
  /\ FNUnchanged

\* what the awaiting caller does once the promise settled
Settled(resolved, m) ==
  IF call.caller = "loop"
  THEN /\ IF resolved THEN PairDone(m) ELSE PairFailed
       /\ UNCHANGED lastReturn
  ELSE /\ lastReturn' = [oil1 |-> call.oil1, oil2 |-> call.oil2,
                         state |-> IF resolved THEN "resolved" ELSE "rejected",
                         value |-> IF resolved
                                   THEN Get(m, getSimilarityKey(call.oil1, call.oil2))
                                   ELSE UndefinedValue]
       /\ similarityMatrix' = m
       /\ pc' = call.back
       /\ UNCHANGED <<i, j, processedPairs, cacheFile, lastWrite>>

\* the 'close' handler of getSimilarityScore.  Exit code 0 with a JSON object
\* in stdout stores the entry and resolves; the store throwing (primitive
\* matrix), unparsable JSON, no JSON, or another exit code rejects.
OnCloseLLM ==
  /\ prog = "LLM" /\ pc = "awaiting" /\ call.fate = "exits"
  /\ \E code \in ExitCodes, out \in LLMOutputs :
       LET stores == code = 0 /\ out.kind = "json" /\ CanPut(similarityMatrix)
           m == IF stores
                THEN Put(similarityMatrix, getSimilarityKey(call.oil1, call.oil2),
                         OracleEntry(call.oil1, call.oil2, out))
                ELSE similarityMatrix
       IN /\ Settled(stores, m)
          /\ lastEvent' = IF code = 0
                          THEN Event(call.oil1, call.oil2, call.caller, "exit0", out.kind)
                          ELSE Event(call.oil1, call.oil2, call.caller, "exitN", "none")
  /\ call' = NoCall
  /\ UNCHANGED <<prog, distances>>
  /\ FNUnchanged

\* the 'error' handler of getSimilarityScore (the process could not be
\* spawned): rejects.  The 'close' event that follows finds the promise
\* settled: its reject has no effect, and it is no step here.
OnErrorLLM ==
  /\ prog = "LLM" /\ pc = "awaiting" /\ call.fate = "spawnfails"
  /\ Settled(FALSE, similarityMatrix)
  /\ lastEvent' = Event(call.oil1, call.oil2, call.caller, "spawnError", "none")
  /\ call' = NoCall
  /\ UNCHANGED <<prog, distances>>
  /\ FNUnchanged

\* the loop is over: the final saveCache()
FinishLLM ==
  /\ prog = "LLM" /\ pc = "loop" /\ Finished(i, j)
  /\ \E w \in WriteOutcomes :
       /\ cacheFile' = saveCache(similarityMatrix, cacheFile, w)
       /\ lastWrite' = w
  /\ pc' = "done"
  /\ UNCHANGED <<prog, i, j, similarityMatrix, processedPairs, call, lastEvent, lastReturn, distances>>
  /\ FNUnchanged

\* a caller outside the loop calls getSimilarityScore(a, b) on the instance
Lookup ==
  /\ prog = "LLM" /\ pc \in {"embedded", "aborted"}
  /\ \E y \in 2..nOils, a \in Oils, b \in Oils :
       /\ a = oilNames[y] /\ b = oilNames[1]
       /\ IF Cached(similarityMatrix, getSimilarityKey(a, b))
          THEN /\ lastReturn' = [oil1 |-> a, oil2 |-> b, state |-> "resolved",
                                 value |-> Get(similarityMatrix, getSimilarityKey(a, b))]
               /\ lastEvent' = Event(a, b, "outside", "cached", "none")
               /\ UNCHANGED <<pc, call>>
          ELSE /\ \E f \in Fates :
                    call' = [active |-> TRUE, oil1 |-> a, oil2 |-> b,
                             caller |-> "outside", back |-> pc, fate |-> f]
               /\ pc' = "awaiting"
               /\ UNCHANGED <<lastReturn, lastEvent>>
  /\ UNCHANGED <<prog, i, j, similarityMatrix, cacheFile, processedPairs,
                 lastWrite, distances>>
  /\ FNUnchanged

\* new LLMScentEmbeddings(): a fresh instance, the cache file as it is
NewInstance ==
  /\ prog = "LLM" /\ pc \in {"embedded", "aborted"}
  /\ pc' = "start"
  /\ similarityMatrix' = EmptyMatrix
  /\ processedPairs' = 0
  /\ i' = 0 /\ j' = 0
  /\ lastEvent' = NoEvent
  /\ lastReturn' = NoReturn
  /\ lastWrite' = "none"
  /\ distances' = NoDistances
  /\ UNCHANGED <<prog, cacheFile, call>>
  /\ FNUnchanged

(***************************************************************************)
(* FastAIDemo and AINotesVisualization: similarities on the 0..1 scale     *)
(***************************************************************************)
\* 1.0 in the unit of the 0..1 scale: every term of getFallbackSimilarity
\* over the catalog's five-note sets is a whole number of 1/Unit
Unit == 2520 * 10

\* a number, or NaN
Val(v) == [nan |-> FALSE, v |-> v]
NaN    == [nan |-> TRUE, v |-> 0]

Min(a, b) == IF a < b THEN a ELSE b
Max(a, b) == IF a > b THEN a ELSE b
Abs(a) == IF a < 0 THEN -a ELSE a

\* Math.max(0, Math.min(1, x)): NaN stays NaN
Clamp01(x) == IF x.nan THEN NaN ELSE Val(Max(0, Min(Unit, x.v)))

intensityMap == [light |-> 1, medium |-> 2, strong |-> 3, heavy |-> 4]

\* new Set(array)
SetOf(array) == {array[k] : k \in DOMAIN array}

\* the body of getFallbackSimilarity (the same code in both classes) for
\* the catalog records data1 and data2:
\* 0.4 for an equal category + (4 - intensityDiff) / 4 * 0.3
\*   + |notes1 n notes2| / |notes1 u notes2| * 0.3, clamped to 0..1
fallbackOf(data1, data2) ==
  LET intensityDiff == Abs(intensityMap[data1.intensity] - intensityMap[data2.intensity])
      intersection == SetOf(data1.notes) \cap SetOf(data2.notes)
      union == SetOf(data1.notes) \cup SetOf(data2.notes)
  IN IF union = {} THEN NaN
     ELSE Clamp01(Val((IF data1.category = data2.category THEN (4 * Unit) \div 10 ELSE 0)
                      + ((4 - intensityDiff) * 3 * Unit) \div 40
                      + (Cardinality(intersection) * 3 * Unit) \div (Cardinality(union) * 10)))

getFallbackSimilarity(oil1, oil2) == fallbackOf(essentialOils[oil1], essentialOils[oil2])

\* `${oil1}-${oil2}`
PairKey(oil1, oil2) == Join(<<oil1, oil2>>, 45)

\* stdout of aiNoteSimilarityBare.js: no SIMILARITY_RESULT line, or a line
\* whose text parseFloat turns into NaN or into a number
NoLine == [line |-> FALSE, score |-> NaN]

ScoreLine(x) == [line |-> TRUE, score |-> x]

Scores == {NaN, Val(0), Val(Unit \div 4)}

FNOutputs == {NoLine} \cup {ScoreLine(x) : x \in Scores}

\* FastAIDemo's 'close' handler, whatever the exit code:
\* similarity = 0.5, or Math.max(0, Math.min(1, parseFloat(score) || 0.5))
closeSimilarityFast(out) ==
  IF ~out.line THEN Val(Unit \div 2)
  ELSE IF out.score.nan \/ out.score.v = 0 THEN Clamp01(Val(Unit \div 2))
  ELSE Clamp01(out.score)

\* AINotesVisualization's 'close' handler for exit code 0:
\* similarity = 0.5, or Math.max(0, Math.min(1, parseFloat(score)))
closeSimilarityNotes(out) ==
  IF ~out.line THEN Val(Unit \div 2) ELSE Clamp01(out.score)

LLMUnchanged ==
  UNCHANGED <<similarityMatrix, cacheFile, processedPairs, lastReturn, lastWrite,
              calc, llmService, inflight>>

\* getLLMSimilarity / getLLMNoteSimilarity spawn the oracle and arm the
\* timeout; the loop awaits the promise
SpawnFN ==
  /\ prog \in {"Fast", "Notes"} /\ pc = "loop" /\ ~Finished(i, j)
  /\ \E f \in Fates :
       call' = [active |-> TRUE, oil1 |-> oilNames[i], oil2 |-> oilNames[j],
                caller |-> "loop", back |-> "loop", fate |-> f]
  /\ pc' = "awaiting"
  /\ UNCHANGED <<prog, i, j, similarities, completed, lateTimers, lastEvent, distances>>
  /\ LLMUnchanged

\* the loop body after the await: store the value under both key orders
\* variant for sensitivity checks: the similarity is stored under one key only
StorePairOneKey(v) ==
  /\ similarities' =
       [k \in DOMAIN similarities \cup {PairKey(call.oil1, call.oil2)} |->
          IF k = PairKey(call.oil1, call.oil2) THEN v ELSE similarities[k]]
  /\ completed' = completed + 1
  /\ Advance
  /\ pc' = "loop"
  /\ call' = NoCall

StorePair(v) ==
  /\ similarities' =
       [k \in DOMAIN similarities
               \cup {PairKey(call.oil1, call.oil2), PairKey(call.oil2, call.oil1)} |->
          IF k \in {PairKey(call.oil1, call.oil2), PairKey(call.oil2, call.oil1)}
          THEN v ELSE similarities[k]]
  /\ completed' = completed + 1
  /\ Advance
  /\ pc' = "loop"
  /\ call' = NoCall

\* FastAIDemo: 'close' resolves with what stdout holds, for every exit code.
\* The invocation's timer stays armed.
OnCloseFast ==
  /\ prog = "Fast" /\ pc = "awaiting" /\ call.fate = "exits"
  /\ \E code \in ExitCodes, out \in FNOutputs :
       /\ StorePair(closeSimilarityFast(out))
       /\ lastEvent' = Event(call.oil1, call.oil2, call.caller,
                             IF code = 0 THEN "exit0" ELSE "exitN",
                             IF out.line THEN "line" ELSE "none")
  /\ lateTimers' = TRUE
  /\ UNCHANGED <<prog, distances>>
  /\ LLMUnchanged

\* AINotesVisualization: 'close' with code 0 resolves with what stdout
\* holds, another code resolves with the fallback
OnCloseNotes ==
  /\ prog = "Notes" /\ pc = "awaiting" /\ call.fate = "exits"
  /\ \E code \in ExitCodes, out \in FNOutputs :
       IF code = 0
       THEN /\ StorePair(closeSimilarityNotes(out))
            /\ lastEvent' = Event(call.oil1, call.oil2, call.caller, "exit0",
                                  IF out.line THEN "line" ELSE "none")
       ELSE /\ StorePair(getFallbackSimilarity(call.oil1, call.oil2))
            /\ lastEvent' = Event(call.oil1, call.oil2, call.caller, "exitN", "none")
  /\ lateTimers' = TRUE
  /\ UNCHANGED <<prog, distances>>
  /\ LLMUnchanged

\* 'error' (the process could not be spawned) resolves with the fallback
OnErrorFN ==
  /\ prog \in {"Fast", "Notes"} /\ pc = "awaiting" /\ call.fate = "spawnfails"
  /\ StorePair(getFallbackSimilarity(call.oil1, call.oil2))
  /\ lastEvent' = Event(call.oil1, call.oil2, call.caller, "spawnError", "none")
  /\ lateTimers' = TRUE
  /\ UNCHANGED <<prog, distances>>
  /\ LLMUnchanged

\* the timeout of the awaited invocation (timers of equal delay fire in the
\* order they were armed): the process is not killed yet, so it is sent
\* SIGTERM and the promise resolves with the fallback
OnTimeoutFN ==
  /\ prog \in {"Fast", "Notes"} /\ pc = "awaiting" /\ call.fate \in {"exits", "hangs"}
  /\ ~lateTimers
  /\ StorePair(getFallbackSimilarity(call.oil1, call.oil2))
  /\ lastEvent' = Event(call.oil1, call.oil2, call.caller, "timeout", "none")
  /\ UNCHANGED <<prog, lateTimers, distances>>
  /\ LLMUnchanged

\* variant for sensitivity checks: the late resolve() replaces what was stored
lateResolveStores(sims) == [k \in DOMAIN sims |-> NaN]

\* this.similarities after resolve(fallback) was called on a promise that has
\* settled: the call has no effect and the loop stores nothing
lateResolve(sims) == sims

\* the timeout of an invocation that has settled: kill() and resolve() have
\* no effect
OnLateTimer ==
  /\ lateTimers
  /\ lateTimers' \in BOOLEAN
  /\ similarities' = lateResolve(similarities)
  /\ UNCHANGED <<prog, pc, i, j, similarityMatrix, cacheFile, processedPairs,
                 completed, call, lastEvent, lastReturn,
                 lastWrite, distances, calc, llmService, inflight>>

\* the loop is over: the self-similarity entries
FinishFN ==
  /\ prog \in {"Fast", "Notes"} /\ pc = "loop" /\ Finished(i, j)
  /\ similarities' =
       [k \in DOMAIN similarities \cup {PairKey(o, o) : o \in Oils} |->
          IF k \in {PairKey(o, o) : o \in Oils} THEN Val(Unit) ELSE similarities[k]]
  /\ pc' = "done"
  /\ UNCHANGED <<prog, i, j, completed, call, lateTimers, lastEvent,
                 distances>>
  /\ LLMUnchanged

(***************************************************************************)
(* Distance Matrix Builder                                                 *)
(***************************************************************************)
\* `this.similarityMatrix[key]?.similarity || 50`: the default replaces an
\* absent entry, an undefined similarity and the number 0
similarityOr50(v) ==
  IF v.t = "object" /\ v.similarity.k = "number" /\ v.similarity.n # 0
  THEN v.similarity.n
  ELSE 50

\* variant for sensitivity checks: no special case for the diagonal
createDistanceMatrixNoDiagonal(m) ==
  [a \in 1..nOils |-> [b \in 1..nOils |->
     100 - similarityOr50(Get(m, getSimilarityKey(oilNames[a], oilNames[b])))]]

\* createDistanceMatrix, in hundredths: (100 - similarity) / 100
createDistanceMatrix(m) ==
  [a \in 1..nOils |-> [b \in 1..nOils |->
     IF a = b THEN 0
     ELSE 100 - similarityOr50(Get(m, getSimilarityKey(oilNames[a], oilNames[b])))]]

\* AINotesVisualization.generateEmbeddings, in 1/Unit:
\* distances[i][j] = 1 - (this.similarities[`${oil1}-${oil2}`] || 0)
notesDistances(sims) ==
  [a \in 1..nOils |-> [b \in 1..nOils |->
     LET k == PairKey(oilNames[a], oilNames[b])
     IN IF k \in DOMAIN sims /\ ~sims[k].nan /\ sims[k].v # 0
        THEN Unit - sims[k].v
        ELSE Unit]]

\* generateEmbeddings: right after `await this.generateSimilarityMatrix()`
CreateDistanceMatrix ==
  /\ prog = "LLM" /\ pc = "done"
  /\ distances' = createDistanceMatrix(similarityMatrix)
  /\ pc' = "embedded"
  /\ UNCHANGED <<prog, i, j, similarityMatrix, cacheFile, processedPairs, call,
                 lastEvent, lastReturn, lastWrite>>
  /\ FNUnchanged

\* generate(): generateEmbeddings() right after generateAISimilarityMatrix()
GenerateEmbeddingsNotes ==
  /\ prog = "Notes" /\ pc = "done"
  /\ distances' = notesDistances(similarities)
  /\ pc' = "embedded"
  /\ UNCHANGED <<prog, i, j, similarities, completed, call, lateTimers, lastEvent>>
  /\ LLMUnchanged

\* `Object.keys(this.similarities).length / 2`, as a fraction
totalComparisons(sims) == [num |-> Cardinality(DOMAIN sims), den |-> 2]

\* generate(): the data file and its metadata, written once the embedding is
\* made (FastAIDemo's generateEmbeddings leaves this.similarities as it is)
WriteData ==
  /\ \/ prog = "Fast" /\ pc = "done"
     \/ prog = "Notes" /\ pc = "embedded"
  /\ calc = NoCalc
  /\ calc' = Calc("writeData", <<>>,
                  [totalOils |-> nOils,
                   totalComparisons |-> totalComparisons(similarities)])
  /\ UNCHANGED <<prog, pc, i, j, similarityMatrix, cacheFile, processedPairs,
                 similarities, completed, call, lateTimers, lastEvent,
                 lastReturn, lastWrite, distances, llmService, inflight>>

(***************************************************************************)
(* Initial states                                                          *)
(***************************************************************************)
\* an entry a previous run stored for the first pair
StoredEntry == Entry(Str(oilNames[1]), Str(oilNames[2]), Num(80), Str("llm"), Str("t"))

FirstKey == getSimilarityKey(oilNames[1], oilNames[2])

\* an entry whose similarity is outside 0..100, for the last pair
OutOfRangeEntry ==
  Entry(Str(oilNames[nOils - 1]), Str(oilNames[nOils]), Num(150), Str("llm"), Str("t"))

LastKey == getSimilarityKey(oilNames[nOils - 1], oilNames[nOils])

\* cache files a run may find
InitFiles ==
  { FileMissing, FileUnreadable, FileInvalid, FileNullRoot,
    FileObject([kind |-> "absent",    members |-> NoMembers]),
    FileObject([kind |-> "primitive", members |-> NoMembers]),
    FileObject([kind |-> "array",     members |-> NoMembers]),
    FileObject([kind |-> "object",    members |-> NoMembers]),
    FileObject([kind |-> "object",    members |-> {<<FirstKey, StringifyValue(StoredEntry)>>}]),
    FileObject([kind |-> "object",    members |-> {<<FirstKey, StringifyValue(NullValue)>>}]),
    FileObject([kind |-> "object",    members |-> {<<LastKey, StringifyValue(OutOfRangeEntry)>>}]) }

NoSimilarities == [k \in {} |-> NaN]

InitLLM ==
  /\ prog = "LLM"
  /\ pc = "start"
  /\ cacheFile \in InitFiles

\* the scripts construct their generator and call generate()
InitFN ==
  /\ prog \in {"Fast", "Notes"}
  /\ pc = "loop"
  /\ i = FirstPos[1] /\ j = FirstPos[2]
  /\ cacheFile = FileMissing

Init ==
  /\ (InitLLM /\ i = 0 /\ j = 0) \/ InitFN
  /\ similarityMatrix = EmptyMatrix
  /\ processedPairs = 0
  /\ similarities = NoSimilarities
  /\ completed = 0
  /\ call = NoCall
  /\ lateTimers = FALSE
  /\ lastEvent = NoEvent
  /\ lastReturn = NoReturn
  /\ lastWrite = "none"
  /\ distances = NoDistances
  /\ calc = NoCalc
  /\ llmService = NewService
  /\ inflight = NothingInFlight

Next ==
  \/ LoadCache
  \/ PairCached
  \/ PairSpawn
  \/ OnCloseLLM
  \/ OnErrorLLM
  \/ FinishLLM
  \/ Lookup
  \/ NewInstance
  \/ SpawnFN
  \/ OnCloseFast
  \/ OnCloseNotes
  \/ OnErrorFN
  \/ OnTimeoutFN
  \/ OnLateTimer
  \/ FinishFN
  \/ CreateDistanceMatrix
  \/ GenerateEmbeddingsNotes
  \/ WriteData

Spec == Init /\ [][Next]_vars

\* the event loop runs every handler whose event has occurred, and every
\* armed timer fires
FairSpec ==
  /\ Spec
  /\ WF_vars(LoadCache) /\ WF_vars(PairCached) /\ WF_vars(PairSpawn)
  /\ WF_vars(OnCloseLLM) /\ WF_vars(OnErrorLLM) /\ WF_vars(FinishLLM)
  /\ WF_vars(CreateDistanceMatrix)
  /\ WF_vars(SpawnFN) /\ WF_vars(OnCloseFast) /\ WF_vars(OnCloseNotes)
  /\ WF_vars(OnErrorFN) /\ WF_vars(OnTimeoutFN) /\ WF_vars(OnLateTimer)
  /\ WF_vars(FinishFN) /\ WF_vars(GenerateEmbeddingsNotes)

(***************************************************************************)
(* Numbers of the reducers.  A double is held as a fixed-point integer in  *)
(* units of 1/Fix, or is NaN, or is an infinity; products, quotients and   *)
(* square roots are rounded to the nearest unit.  The operations follow    *)
(* IEEE 754 where NaN and the infinities are concerned: 0/0 is NaN, x/0 is *)
(* an infinity, NaN is absorbing.  A magnitude below half a unit rounds to *)
(* 0, so the properties stated over these numbers are about which values   *)
(* are finite, zero or equal, never about their size.                      *)
(***************************************************************************)
Fix == 100 * 100

Fin(v) == [k |-> "fin", v |-> v]
NotANumber == [k |-> "nan", v |-> 0]
Infinite(sign) == [k |-> "inf", v |-> sign]

IsFinite(x) == x.k = "fin"

Sign(v) == IF v < 0 THEN -1 ELSE IF v > 0 THEN 1 ELSE 0

\* p / q rounded to the nearest integer, halves away from zero (q > 0)
RoundDiv(p, q) == Sign(p) * ((2 * Abs(p) + q) \div (2 * q))

\* a + b
Add(a, b) ==
  IF a.k = "nan" \/ b.k = "nan" THEN NotANumber
  ELSE IF a.k = "inf" /\ b.k = "inf" THEN (IF a.v = b.v THEN a ELSE NotANumber)
  ELSE IF a.k = "inf" THEN a
  ELSE IF b.k = "inf" THEN b
  ELSE Fin(a.v + b.v)

\* -a
Neg(a) == IF a.k = "nan" THEN a ELSE [a EXCEPT !.v = -a.v]

\* a - b
Sub(a, b) == Add(a, Neg(b))

\* a * b
Mul(a, b) ==
  IF a.k = "nan" \/ b.k = "nan" THEN NotANumber
  ELSE IF a.k = "inf" \/ b.k = "inf"
       THEN (IF a.v = 0 \/ b.v = 0 THEN NotANumber ELSE Infinite(Sign(a.v) * Sign(b.v)))
  ELSE Fin(RoundDiv(a.v * b.v, Fix))

\* a / b
Div(a, b) ==
  IF a.k = "nan" \/ b.k = "nan" THEN NotANumber
  ELSE IF a.k = "inf" THEN (IF b.k = "inf" THEN NotANumber
                            ELSE Infinite(a.v * (IF b.v < 0 THEN -1 ELSE 1)))
  ELSE IF b.k = "inf" THEN Fin(0)
  ELSE IF b.v = 0 THEN (IF a.v = 0 THEN NotANumber ELSE Infinite(Sign(a.v)))
  ELSE Fin(Sign(b.v) * RoundDiv(a.v * Fix, Abs(b.v)))

\* Math.abs(a)
AbsNum(a) == IF a.k = "nan" THEN a ELSE [a EXCEPT !.v = Abs(a.v)]

RECURSIVE ISqrtBetween(_, _, _)
\* the largest r in lo..hi with r * r <= y
ISqrtBetween(y, lo, hi) ==
  IF lo = hi THEN lo
  ELSE LET mid == (lo + hi + 1) \div 2
       IN IF mid * mid <= y THEN ISqrtBetween(y, mid, hi) ELSE ISqrtBetween(y, lo, mid - 1)

\* Math.sqrt(a)
Sqrt(a) ==
  IF a.k = "nan" THEN NotANumber
  ELSE IF a.k = "inf" THEN (IF a.v > 0 THEN a ELSE NotANumber)
  ELSE IF a.v < 0 THEN NotANumber
  ELSE LET y == a.v * Fix
           r == ISqrtBetween(y, 0, 46340)
       IN Fin(IF y - r * r > r THEN r + 1 ELSE r)

\* a || b for numbers: 0 and NaN are falsy
OrElse(a, b) == IF a.k = "nan" \/ (a.k = "fin" /\ a.v = 0) THEN b ELSE a

RECURSIVE SumTo(_, _)
\* v.reduce((sum, val) => sum + val, 0) over the first k elements
SumTo(v, k) == IF k = 0 THEN Fin(0) ELSE Add(SumTo(v, k - 1), v[k])

Sum(v) == SumTo(v, Len(v))

RECURSIVE DotTo(_, _, _)
DotTo(a, b, k) == IF k = 0 THEN Fin(0) ELSE Add(DotTo(a, b, k - 1), Mul(a[k], b[k]))

\* dotProduct(a, b): a.reduce((sum, val, i) => sum + val * b[i], 0)
dotProduct(a, b) == DotTo(a, b, Len(a))

RECURSIVE SeqOf(_, _)
\* Array(n).fill().map((_, k) => F(k)), the elements computed in order
SeqOf(F(_), n) == IF n = 0 THEN <<>> ELSE Append(SeqOf(F, n - 1), F(n))

\* the number n as a double
FromInt(n) == Fin(n * Fix)

(***************************************************************************)
(* LLMScentEmbeddings.performMDS                                           *)
(***************************************************************************)
matrixVectorMultiply(matrix, vector) ==
  SeqOf(LAMBDA r : dotProduct(matrix[r], vector), Len(matrix))

\* distances[i][j] - rowMeans[i] - colMeans[j] + grandMean
centerDistanceMatrix(dist) ==
  LET n == Len(dist)
      rowMeans == SeqOf(LAMBDA r : Div(Sum(dist[r]), FromInt(n)), n)
      colMeans == SeqOf(LAMBDA c : Div(Sum(SeqOf(LAMBDA r : dist[r][c], n)), FromInt(n)), n)
      grandMean == Div(Sum(rowMeans), FromInt(n))
  IN SeqOf(LAMBDA r :
             SeqOf(LAMBDA c : Add(Sub(Sub(dist[r][c], rowMeans[r]), colMeans[c]), grandMean), n),
           n)

\* matrix[i][j] - eigenvalue * eigenvector[i] * eigenvector[j]
deflateMatrix(matrix, eigenvector, eigenvalue) ==
  LET n == Len(matrix)
  IN SeqOf(LAMBDA r :
             SeqOf(LAMBDA c : Sub(matrix[r][c],
                                  Mul(Mul(eigenvalue, eigenvector[r]), eigenvector[c])), n),
           n)

\* the iterations of the power method in eigenDecomposition
PowerIterations == 100

\* the eigenpairs eigenDecomposition looks for
maxEigen == 2

\* one iteration: newVector = M * vector;  vector = newVector / |newVector|
powerStep(matrix, vector) ==
  LET newVector == matrixVectorMultiply(matrix, vector)
      norm == Sqrt(dotProduct(newVector, newVector))
  IN SeqOf(LAMBDA r : Div(newVector[r], norm), Len(newVector))

RECURSIVE powerIteration(_, _, _)
\* iter iterations from vector; long runs are evaluated ten iterations at a
\* time, which keeps the evaluation shallow and changes no value
powerIteration(matrix, vector, iter) ==
  IF iter = 0 THEN vector
  ELSE LET continue(next) ==
             IF Len(next) = Len(vector)
             THEN powerIteration(matrix, next, IF iter > 10 THEN iter - 10 ELSE iter - 1)
             ELSE next
       IN continue(IF iter > 10 THEN powerIteration(matrix, vector, 10)
                   ELSE powerStep(matrix, vector))

RECURSIVE eigenPairs(_, _, _)
\* the loop over e of eigenDecomposition; random[e][k] is what the k-th
\* Math.random() of round e returned
eigenPairs(workingMatrix, random, e) ==
  IF e > maxEigen THEN <<>>
  ELSE LET n == Len(workingMatrix)
           start == SeqOf(LAMBDA r : Sub(random[e][r], Fin(Fix \div 2)), n)
           found(vector, eigenvalue) ==
             <<[eigenvalue |-> eigenvalue, vector |-> vector]>>
               \o eigenPairs(deflateMatrix(workingMatrix, vector, eigenvalue), random, e + 1)
           from(vector) ==
             found(vector, dotProduct(vector, matrixVectorMultiply(workingMatrix, vector)))
       IN from(powerIteration(workingMatrix, start, PowerIterations))

eigenDecomposition(matrix, random) ==
  LET split(pairs) ==
        [eigenvalues  |-> SeqOf(LAMBDA d : pairs[d].eigenvalue, maxEigen),
         eigenvectors |-> SeqOf(LAMBDA r : SeqOf(LAMBDA d : pairs[d].vector[r], maxEigen),
                                Len(matrix))]
  IN split(eigenPairs(matrix, random, 1))

\* coordinates[i][d] = Math.sqrt(Math.abs(eigenvalues[d])) * eigenvectors[i][d]
performMDS(dist, random) ==
  LET coordinates(eig) ==
        SeqOf(LAMBDA r :
                SeqOf(LAMBDA d : Mul(Sqrt(AbsNum(eig.eigenvalues[d])), eig.eigenvectors[r][d]),
                      maxEigen),
              Len(dist))
  IN coordinates(eigenDecomposition(centerDistanceMatrix(dist), random))

(***************************************************************************)
(* FastAIDemo.generateEmbeddings: the force-directed layout                *)
(***************************************************************************)
\* a similarity of the 0..1 scale as a double of the reducers
toNum(x) == IF x.nan THEN NotANumber ELSE Fin(RoundDiv(x.v * Fix, Unit))

\* this.similarities[key] as a double; an absent key reads as undefined,
\* which arithmetic turns into NaN
readSimilarity(sims, key) == IF key \in DOMAIN sims THEN toNum(sims[key]) ELSE NotANumber

\* the iterations of the layout loop
LayoutIterations == 200

\* what the pair (a, b), a < b, adds to forces[b] (and takes from forces[a])
pairForce(coords, sims, a, b) ==
  LET dx == Sub(coords[a].x, coords[b].x)
      dy == Sub(coords[a].y, coords[b].y)
      similarity == readSimilarity(sims, PairKey(oilNames[a], oilNames[b]))
      targetDistance == Sub(FromInt(1), similarity)
      scaled(force, distance) ==
        [x |-> Div(Mul(force, dx), distance), y |-> Div(Mul(force, dy), distance)]
      at(distance) == scaled(Mul(Sub(distance, targetDistance), Fin(Fix \div 10)), distance)
  IN at(OrElse(Sqrt(Add(Mul(dx, dx), Mul(dy, dy))), Fin(Fix \div 1000)))

RECURSIVE forceOn(_, _, _, _)
\* forces[oilNames[o]] after the pairs of o with the items 1..b
forceOn(coords, sims, o, b) ==
  IF b = 0 THEN [x |-> Fin(0), y |-> Fin(0)]
  ELSE LET rest == forceOn(coords, sims, o, b - 1)
           minus(f) == [x |-> Sub(rest.x, f.x), y |-> Sub(rest.y, f.y)]
           plus(f) == [x |-> Add(rest.x, f.x), y |-> Add(rest.y, f.y)]
       IN IF b = o THEN rest
          ELSE IF o < b THEN minus(pairForce(coords, sims, o, b))
          ELSE plus(pairForce(coords, sims, b, o))

\* one iteration: the forces of all pairs, then every item moves
layoutStep(coords, sims) ==
  LET moved(o, f) == [x |-> Add(coords[o].x, f.x), y |-> Add(coords[o].y, f.y)]
  IN SeqOf(LAMBDA o : moved(o, forceOn(coords, sims, o, Len(coords))), Len(coords))

RECURSIVE layoutIteration(_, _, _)
\* iter iterations from coords; long runs are evaluated ten iterations at a
\* time, which keeps the evaluation shallow and changes no value
layoutIteration(coords, sims, iter) ==
  IF iter = 0 THEN coords
  ELSE LET continue(next) ==
             IF Len(next) = Len(coords)
             THEN layoutIteration(next, sims, IF iter > 10 THEN iter - 10 ELSE iter - 1)
             ELSE next
       IN continue(IF iter > 10 THEN layoutIteration(coords, sims, 10)
                   ELSE layoutStep(coords, sims))

\* coords after the loop; random[o] holds what the two Math.random() calls
\* for item o returned
forceLayout(sims, random) ==
  layoutIteration(
    SeqOf(LAMBDA o : [x |-> Mul(Sub(random[o].x, Fin(Fix \div 2)), FromInt(2)),
                      y |-> Mul(Sub(random[o].y, Fin(Fix \div 2)), FromInt(2))], nOils),
    sims, LayoutIterations)

(***************************************************************************)
(* AINotesVisualization.simpleMDS: the stress minimisation loop (the       *)
(* centered matrix it computes first is not used afterwards)               *)
(***************************************************************************)
\* the iterations of the loop of simpleMDS
StressIterations == 100

\* a * tenths / 10 for a finite a: a product by a constant, computed from the
\* whole and the fractional part of a so that a large quotient stays within
\* the integers of the checker
Scale(a, tenths) ==
  IF a.k # "fin" THEN Mul(a, Fin((tenths * Fix) \div 10))
  ELSE Fin(Sign(a.v) * ((Abs(a.v) \div 10) * tenths
                          + RoundDiv((Abs(a.v) % 10) * tenths, 10)))

\* what the pair (a, b), a < b, adds to forces[b] (and takes from forces[a])
stressForce(coords, dist, a, b) ==
  LET dx == Sub(coords[a].x, coords[b].x)
      dy == Sub(coords[a].y, coords[b].y)
      target_dist == dist[a][b]
      scaled(force) == [x |-> Mul(force, dx), y |-> Mul(force, dy)]
      at(current_dist) ==
        scaled(Scale(Div(Sub(current_dist, target_dist), current_dist), 1))
  IN at(OrElse(Sqrt(Add(Mul(dx, dx), Mul(dy, dy))), Fin(Fix \div 1000)))

RECURSIVE stressOn(_, _, _, _)
\* forces[o] after the pairs of o with the items 1..b
stressOn(coords, dist, o, b) ==
  IF b = 0 THEN [x |-> Fin(0), y |-> Fin(0)]
  ELSE LET rest == stressOn(coords, dist, o, b - 1)
           minus(f) == [x |-> Sub(rest.x, f.x), y |-> Sub(rest.y, f.y)]
           plus(f) == [x |-> Add(rest.x, f.x), y |-> Add(rest.y, f.y)]
       IN IF b = o THEN rest
          ELSE IF o < b THEN minus(stressForce(coords, dist, o, b))
          ELSE plus(stressForce(coords, dist, b, o))

\* one iteration: the forces of all pairs, then every item moves
stressStep(coords, dist) ==
  LET moved(o, f) == [x |-> Add(coords[o].x, f.x), y |-> Add(coords[o].y, f.y)]
  IN SeqOf(LAMBDA o : moved(o, stressOn(coords, dist, o, Len(coords))), Len(coords))

RECURSIVE stressIteration(_, _, _)
\* iter iterations from coords, evaluated ten iterations at a time
stressIteration(coords, dist, iter) ==
  IF iter = 0 THEN coords
  ELSE LET continue(next) ==
             IF Len(next) = Len(coords)
             THEN stressIteration(next, dist, IF iter > 10 THEN iter - 10 ELSE iter - 1)
             ELSE next
       IN continue(IF iter > 10 THEN stressIteration(coords, dist, 10)
                   ELSE stressStep(coords, dist))

\* (Math.random() - 0.5) * 2 for both coordinates of every item
initialPositions(random) ==
  SeqOf(LAMBDA o : [x |-> Mul(Sub(random[o].x, Fin(Fix \div 2)), FromInt(2)),
                    y |-> Mul(Sub(random[o].y, Fin(Fix \div 2)), FromInt(2))], Len(random))

\* coords after the loop; random[o] holds what the two Math.random() calls
\* for item o returned
simpleMDS(dist, random) ==
  stressIteration(initialPositions(random), dist, StressIterations)

(***************************************************************************)
(* ScentEmbeddings (scentEmbeddings.js): TF-IDF vectors and PCA.  A        *)
(* catalog is the sequence of Object.entries(this.oils): records with the  *)
(* name and the data of an item.                                           *)
(***************************************************************************)
\* the entries of the catalog for the given names
catalogOf(names) ==
  SeqOf(LAMBDA k : [name |-> names[k], data |-> essentialOils[names[k]]], Len(names))

\* array.includes(x)
Includes(array, x) == \E k \in DOMAIN array : array[k] = x

RECURSIVE addAll(_, _, _)
\* the Set's insertion order after notes[k..] were added
addAll(vocabulary, notes, k) ==
  IF k > Len(notes) THEN vocabulary
  ELSE addAll(IF Includes(vocabulary, notes[k]) THEN vocabulary
              ELSE Append(vocabulary, notes[k]),
              notes, k + 1)

RECURSIVE vocabularyTo(_, _)
vocabularyTo(catalog, k) ==
  IF k = 0 THEN <<>> ELSE addAll(vocabularyTo(catalog, k - 1), catalog[k].data.notes, 1)

\* buildVocabulary: this.vocabularyArray
buildVocabulary(catalog) == vocabularyTo(catalog, Len(catalog))

\* Math.log(k) for the integers 1..10, in units of 1/Fix
lnTable == <<0, 6931, 10986, 13863, 16094, 17918, 19459, 20794, 21972, 23026>>

\* variant for sensitivity checks: the smoothed idf, Math.log(1 + total / freq)
LogSmoothed(total, freq) == Fin(lnTable[total + freq] - lnTable[freq])

\* Math.log(total / freq): exactly 0 when total = freq
Log(total, freq) == Fin(lnTable[total] - lnTable[freq])

\* documentFreq[note]
documentFreq(catalog, note) ==
  Cardinality({k \in DOMAIN catalog : Includes(catalog[k].data.notes, note)})

\* the embedding of one item: tf * idf at the index of each of its notes
embeddingOf(catalog, vocabularyArray, oilData) ==
  SeqOf(LAMBDA index :
          IF Includes(oilData.notes, vocabularyArray[index])
          THEN Mul(Div(FromInt(1), FromInt(Len(oilData.notes))),
                   Log(Len(catalog), documentFreq(catalog, vocabularyArray[index])))
          ELSE Fin(0),
        Len(vocabularyArray))

\* createEmbeddings: this.embeddings, in the order of the catalog
createEmbeddings(catalog) ==
  LET vocabularyArray == buildVocabulary(catalog)
  IN SeqOf(LAMBDA k : embeddingOf(catalog, vocabularyArray, catalog[k].data), Len(catalog))

\* what a function hands to its caller: a value, or an exception
Returned(v) == [thrown |-> FALSE, value |-> v]
Thrown(e) == [thrown |-> TRUE, value |-> e]

\* calculateMeans (the matrix has a first row)
calculateMeans(matrix) ==
  SeqOf(LAMBDA c : Div(Sum(SeqOf(LAMBDA r : matrix[r][c], Len(matrix))),
                       FromInt(Len(matrix))),
        Len(matrix[1]))

\* calculateCovariance: sum of products / (numSamples - 1)
calculateCovariance(centeredMatrix) ==
  LET numFeatures == Len(centeredMatrix[1])
      numSamples == Len(centeredMatrix)
  IN SeqOf(LAMBDA a :
             SeqOf(LAMBDA b :
                     Div(Sum(SeqOf(LAMBDA k : Mul(centeredMatrix[k][a], centeredMatrix[k][b]),
                                   numSamples)),
                         FromInt(numSamples - 1)),
                   numFeatures),
           numFeatures)

\* normalizeVector: magnitude > 0 ? vector / magnitude : vector
normalizeVector(vector) ==
  LET magnitude == Sqrt(dotProduct(vector, vector))
  IN IF (magnitude.k = "fin" /\ magnitude.v > 0) \/ (magnitude.k = "inf" /\ magnitude.v > 0)
     THEN SeqOf(LAMBDA r : Div(vector[r], magnitude), Len(vector))
     ELSE vector

\* the iterations of the power method in getTopEigenvectors
PcaIterations == 50

RECURSIVE pcaIteration(_, _, _)
\* iter iterations from vector; long runs are evaluated ten iterations at a
\* time, which keeps the evaluation shallow and changes no value
pcaIteration(matrix, vector, iter) ==
  IF iter = 0 THEN vector
  ELSE LET continue(next) ==
             IF Len(next) = Len(vector)
             THEN pcaIteration(matrix, next, IF iter > 10 THEN iter - 10 ELSE iter - 1)
             ELSE next
       IN continue(IF iter > 10 THEN pcaIteration(matrix, vector, 10)
                   ELSE normalizeVector(matrixVectorMultiply(matrix, vector)))

\* ScentEmbeddings.deflateMatrix: the eigenvalue is computed from the vector
pcaDeflate(matrix, eigenvector) ==
  deflateMatrix(matrix, eigenvector,
                dotProduct(matrixVectorMultiply(matrix, eigenvector), eigenvector))

RECURSIVE topEigenvectors(_, _, _, _)
\* the loop over v of getTopEigenvectors; random[v][k] is what the k-th
\* Math.random() of round v returned
topEigenvectors(matrix, numVecs, random, v) ==
  IF v > numVecs THEN <<>>
  ELSE LET start == SeqOf(LAMBDA r : Sub(random[v][r], Fin(Fix \div 2)), Len(matrix))
           found(vector) ==
             <<vector>> \o (IF v < numVecs
                            THEN topEigenvectors(pcaDeflate(matrix, vector), numVecs, random, v + 1)
                            ELSE <<>>)
       IN found(pcaIteration(matrix, start, PcaIterations))

getTopEigenvectors(matrix, numVecs, random) == topEigenvectors(matrix, numVecs, random, 1)

\* the centred embedding matrix of reduceToPCA
pcaCentered(catalog) ==
  LET centered(embeddingMatrix, means) ==
        SeqOf(LAMBDA r : SeqOf(LAMBDA c : Sub(embeddingMatrix[r][c], means[c]), Len(means)),
              Len(embeddingMatrix))
      of(embeddingMatrix) == centered(embeddingMatrix, calculateMeans(embeddingMatrix))
  IN of(createEmbeddings(catalog))

\* the (x, y) reduceToPCA projects every item to
pcaCoordinates(catalog, random) ==
  LET projected(centeredMatrix, eigenVecs) ==
        SeqOf(LAMBDA r : <<dotProduct(centeredMatrix[r], eigenVecs[1]),
                           dotProduct(centeredMatrix[r], eigenVecs[2])>>,
              Len(catalog))
      of(centeredMatrix) ==
        projected(centeredMatrix,
                  getTopEigenvectors(calculateCovariance(centeredMatrix), 2, random))
  IN of(pcaCentered(catalog))

\* reduceToPCA after buildVocabulary and createEmbeddings:
\* this.reducedEmbeddings, or the TypeError of calculateMeans reading
\* matrix[0].length of an empty matrix
reduceToPCA(catalog, random) ==
  IF Len(catalog) = 0 THEN Thrown("TypeError")
  ELSE LET reduced(coordinates) ==
             [name \in {catalog[k].name : k \in DOMAIN catalog} |->
                LET k == CHOOSE q \in DOMAIN catalog : catalog[q].name = name
                IN [x |-> coordinates[k][1],
                    y |-> coordinates[k][2],
                    category |-> catalog[k].data.category,
                    notes |-> catalog[k].data.notes,
                    intensity |-> catalog[k].data.intensity]]
       IN Returned(reduced(pcaCoordinates(catalog, random)))

(***************************************************************************)
(* The functions of the pipeline, applied to inputs of their own.  A       *)
(* behaviour of FnSpec applies one function after another, each to an      *)
(* input drawn from a bounded set; calc holds the last application.        *)
(***************************************************************************)
ProgUnchanged ==
  UNCHANGED <<prog, pc, i, j, similarityMatrix, cacheFile, processedPairs,
              similarities, completed, call, lateTimers, lastEvent,
              lastReturn, lastWrite, distances, llmService, inflight>>

\* the positions the double loops visit: i < j
UpperPairs == {p \in (1..nOils) \X (1..nOils) : p[1] < p[2]}

\* a similarity matrix that holds an entry with similarity sim for the pairs ps
matrixOf(ps, sim) ==
  [kind |-> "object",
   ent  |-> [k \in {getSimilarityKey(oilNames[p[1]], oilNames[p[2]]) : p \in ps} |->
               LET p == CHOOSE q \in ps :
                          getSimilarityKey(oilNames[q[1]], oilNames[q[2]]) = k
               IN Entry(Str(oilNames[p[1]]), Str(oilNames[p[2]]), sim, Str("llm"), Str("t"))]]

\* this.similarities holding v under both keys of the pairs ps
similaritiesOf(ps, v) ==
  [k \in {PairKey(oilNames[p[1]], oilNames[p[2]]) : p \in ps}
         \cup {PairKey(oilNames[p[2]], oilNames[p[1]]) : p \in ps} |-> v]

\* LLMScentEmbeddings.createDistanceMatrix on a matrix that lacks some pairs
ApplyCreateDistanceMatrix ==
  /\ prog = "Fn" /\ calc = NoCalc
  /\ \E ps \in SUBSET UpperPairs, sim \in OracleSims :
       calc' = Calc("createDistanceMatrix", [pairs |-> ps, m |-> matrixOf(ps, sim)],
                    createDistanceMatrix(matrixOf(ps, sim)))
  /\ ProgUnchanged

\* the distance loop of AINotesVisualization.generateEmbeddings on
\* similarities that lack some pairs
ApplyNotesDistances ==
  /\ prog = "Fn" /\ calc = NoCalc
  /\ \E ps \in SUBSET UpperPairs, v \in Scores :
       calc' = Calc("notesDistances", [pairs |-> ps, sims |-> similaritiesOf(ps, v)],
                    notesDistances(similaritiesOf(ps, v)))
  /\ ProgUnchanged

\* the largest number of items a reducer is applied to
MaxItems == 3

\* what a call of Math.random() may return
RandomValues == {Fin(Fix \div 4), Fin((3 * Fix) \div 4)}

\* an n x n distance matrix with 0 on the diagonal and d hundredths elsewhere,
\* as createDistanceMatrix returns it: (100 - similarity) / 100
uniformDistances(n, d) ==
  SeqOf(LAMBDA r : SeqOf(LAMBDA c : IF r = c THEN Fin(0) ELSE Fin(RoundDiv(d * Fix, 100)), n), n)

\* performMDS(distances, 2); the values Math.random() returns are drawn
\* afresh in every application
ApplyPerformMDS ==
  /\ prog = "Fn" /\ calc = NoCalc
  /\ \E n \in 0..MaxItems, d \in {0, 50} :
       \E random \in [1..maxEigen -> [1..n -> RandomValues]] :
         calc' = Calc("performMDS",
                      [n |-> n, distances |-> uniformDistances(n, d), random |-> random],
                      Returned(performMDS(uniformDistances(n, d), random)))
  /\ ProgUnchanged

\* the symmetric n x n distance matrices with 0 on the diagonal and 0, 0.5 or
\* 1 elsewhere, as createDistanceMatrix returns them
symmetricDistances(n) ==
  LET pairs == {p \in (1..n) \X (1..n) : p[1] < p[2]}
  IN  { SeqOf(LAMBDA r : SeqOf(LAMBDA c : IF r = c THEN Fin(0)
                                          ELSE IF r < c THEN Fin(d[<<r, c>>])
                                          ELSE Fin(d[<<c, r>>]), n), n) :
          d \in [pairs -> {0, Fix \div 2, Fix}] }

\* the matrix performMDS hands to eigenDecomposition
ApplyCenterDistanceMatrix ==
  /\ prog = "Fn" /\ calc = NoCalc
  /\ \E n \in 0..MaxItems : \E dist \in symmetricDistances(n) :
       calc' = Calc("centerDistanceMatrix", dist, centerDistanceMatrix(dist))
  /\ ProgUnchanged


\* this.similarities after an assembly in which every pair got the value v
assembledSimilarities(v) ==
  [k \in DOMAIN similaritiesOf(UpperPairs, v) \cup {PairKey(o, o) : o \in Oils} |->
     IF k \in {PairKey(o, o) : o \in Oils} THEN Val(Unit) ELSE v]

\* what the two Math.random() calls for one item may return
RandomPairs ==
  { [x |-> Fin(Fix \div 4), y |-> Fin(Fix \div 4)],
    [x |-> Fin((3 * Fix) \div 4), y |-> Fin(Fix \div 4)] }

\* the layout loop of FastAIDemo.generateEmbeddings; the values
\* Math.random() returns are drawn afresh in every application
ApplyForceLayout ==
  /\ prog = "Fn" /\ calc = NoCalc
  /\ \E v \in {Val(Unit), Val(Unit \div 2)} :
       \E random \in [1..nOils -> RandomPairs] :
         calc' = Calc("forceLayout",
                      [n |-> nOils, sims |-> assembledSimilarities(v), random |-> random],
                      Returned(forceLayout(assembledSimilarities(v), random)))
  /\ ProgUnchanged

\* what the two Math.random() calls for one of two items may return: 0.25
\* and 0.75 give -0.5 and 0.5, 0 gives the edge -1 of the initial range
StartPairs == RandomPairs \cup {[x |-> Fin(0), y |-> Fin(0)]}

\* target distances of a pair
TargetDistances == {0, Fix \div 2, Fix}

\* the layout loop of FastAIDemo.generateEmbeddings for two items whose
\* similarity is 1 - d
ApplyTwoItemLayout ==
  /\ prog = "Fn" /\ calc = NoCalc
  /\ \E d \in TargetDistances, random \in [1..2 -> StartPairs] :
       LET sims == similaritiesOf({<<1, 2>>}, Val(RoundDiv((Fix - d) * Unit, Fix)))
       IN  calc' = Calc("twoItemLayout", [d |-> Fin(d), random |-> random],
                        layoutIteration(initialPositions(random), sims, LayoutIterations))
  /\ ProgUnchanged

\* AINotesVisualization.simpleMDS for two items at distance d
ApplyTwoItemMDS ==
  /\ prog = "Fn" /\ calc = NoCalc
  /\ \E d \in TargetDistances, random \in [1..2 -> StartPairs] :
       calc' = Calc("twoItemMDS", [d |-> Fin(d), random |-> random],
                    simpleMDS(<<<<Fin(0), Fin(d)>>, <<Fin(d), Fin(0)>>>>, random))
  /\ ProgUnchanged


\* the embeddings object LLMScentEmbeddings.generateEmbeddings builds from
\* the rows of performMDS: one record per name of this.oilNames
assembleEmbeddings(names, coordinates) ==
  [name \in SetOf(names) |->
     LET k == CHOOSE q \in DOMAIN names : names[q] = name
     IN [x |-> coordinates[k][1],
         y |-> coordinates[k][2],
         category |-> essentialOils[name].category,
         notes |-> essentialOils[name].notes,
         intensity |-> essentialOils[name].intensity,
         description |-> essentialOils[name].description]]

\* rows a reducer may hand to the assembly
CoordinateRows == {<<Fin(0), Fin(0)>>, <<Fin(Fix \div 2), Fin(-Fix)>>, <<NotANumber, NotANumber>>}

\* the assembly step of LLMScentEmbeddings.generateEmbeddings
ApplyAssembleEmbeddings ==
  /\ prog = "Fn" /\ calc = NoCalc
  /\ \E coordinates \in [1..nOils -> CoordinateRows] :
       calc' = Calc("assembleEmbeddings",
                    [n |-> nOils, catalog |-> catalogOf(oilNames), coordinates |-> coordinates],
                    Returned(assembleEmbeddings(oilNames, coordinates)))
  /\ ProgUnchanged

\* tokens that belong to one item each
uniqueTokens == <<"only1", "only2", "only3", "only4", "only5">>

\* a catalog of n items whose notes are one token shared by all and one
\* token of their own, the shared one first or last
sharedTokenCatalog(n, sharedFirst) ==
  SeqOf(LAMBDA k :
          [name |-> OilOrder[k],
           data |-> [essentialOils[OilOrder[k]] EXCEPT
                       !.notes = IF sharedFirst THEN <<"shared", uniqueTokens[k]>>
                                 ELSE <<uniqueTokens[k], "shared">>]],
        n)

\* buildVocabulary and createEmbeddings on a catalog of that kind
ApplyCreateEmbeddings ==
  /\ prog = "Fn" /\ calc = NoCalc
  /\ \E n \in 1..MaxItems, sharedFirst \in BOOLEAN :
       calc' = Calc("createEmbeddings",
                    [n |-> n, catalog |-> sharedTokenCatalog(n, sharedFirst)],
                    [vocabularyArray |-> buildVocabulary(sharedTokenCatalog(n, sharedFirst)),
                     embeddings |-> createEmbeddings(sharedTokenCatalog(n, sharedFirst))])
  /\ ProgUnchanged

(***************************************************************************)
(* The rule-based blend of the server (generateDemoBlend).  oils is the    *)
(* list validOils of the request handler: every element names a catalog    *)
(* record; the identifiers of the model are already in lower case.         *)
(***************************************************************************)
\* null for a note without an oil; no catalog key is the empty string
NoOil == ""

\* the filter of topNotes
isTopNote(oil) ==
  LET oilData == essentialOils[oil]
  IN  \/ oilData.category = "citrus"
      \/ /\ oilData.category = "herbal"
         /\ oilData.intensity = "strong"
         /\ Includes(oilData.notes, "fresh")

\* the filter of middleNotes
isMiddleNote(oil) ==
  LET oilData == essentialOils[oil]
  IN  \/ oilData.category = "floral"
      \/ oilData.category = "resinous"
      \/ (oilData.category = "herbal" /\ oilData.intensity = "medium")

\* the filter of baseNotes
isBaseNote(oil) ==
  LET oilData == essentialOils[oil]
  IN  \/ oilData.category = "woody"
      \/ oilData.category = "earthy"
      \/ oilData.intensity = "heavy"

\* notes.length > 0 ? notes[0] : null
firstOrNull(notes) == IF Len(notes) > 0 THEN notes[1] ELSE NoOil

\* the selectedOils of generateDemoBlend and the total its text states
generateDemoBlend(oils) ==
  LET topNotes    == SelectSeq(oils, isTopNote)
      middleNotes == SelectSeq(oils, isMiddleNote)
      baseNotes   == SelectSeq(oils, isBaseNote)
      top0        == firstOrNull(topNotes)
      middle0     == firstOrNull(middleNotes)
      base0       == firstOrNull(baseNotes)
      used        == SelectSeq(<<top0, middle0, base0>>, LAMBDA oil : oil # NoOil)
      remaining0  == SelectSeq(oils, LAMBDA oil : ~Includes(used, oil))
      fillTop     == top0 = NoOil /\ Len(remaining0) > 0
      topOil      == IF fillTop THEN Head(remaining0) ELSE top0
      remaining1  == IF fillTop THEN Tail(remaining0) ELSE remaining0
      fillMiddle  == middle0 = NoOil /\ Len(remaining1) > 0
      middleOil   == IF fillMiddle THEN Head(remaining1) ELSE middle0
      remaining2  == IF fillMiddle THEN Tail(remaining1) ELSE remaining1
      fillBase    == base0 = NoOil /\ Len(remaining2) > 0
      baseOil     == IF fillBase THEN Head(remaining2) ELSE base0
  IN  [selectedOils |->
         SelectSeq(<<[oil |-> middleOil, note |-> "MIDDLE", percentage |-> 50],
                     [oil |-> baseOil, note |-> "BASE", percentage |-> 30],
                     [oil |-> topOil, note |-> "TOP", percentage |-> 20]>>,
                   LAMBDA item : item.oil # NoOil),
       total |-> 100]

\* the longest list of oils a request carries
MaxBlend == 4

\* the oils requests name
BlendOils == {"lavender", "bergamot", "sandalwood", "peppermint", "jasmine"}

\* the fallback of POST /generate-blend on a list of valid oils
ApplyGenerateDemoBlend ==
  /\ prog = "Fn" /\ calc = NoCalc
  /\ \E n \in 3..MaxBlend : \E oils \in [1..n -> BlendOils] :
       calc' = Calc("generateDemoBlend", oils, generateDemoBlend(oils))
  /\ ProgUnchanged

\* catalog records of every intensity with few notes, in the category cat
itemsOf(cat) ==
  { [notes |-> notes, intensity |-> intensity, category |-> cat, description |-> ""] :
      notes \in {<<"sweet">>, <<"warm">>}, intensity \in {"light", "heavy"} }

\* the fallbacks of the three generators for a pair of one category and for
\* a pair of two categories
ApplyFallbacks ==
  /\ prog = "Fn" /\ calc = NoCalc
  /\ \E a, b, c \in itemsOf("floral"), d \in itemsOf("woody") :
       calc' = Calc("fallbacks",
                    [same |-> <<a, b>>, different |-> <<c, d>>],
                    [same |-> fallbackOf(a, b), different |-> fallbackOf(c, d),
                     llmSame |-> llmFallbackOf(a, b), llmDifferent |-> llmFallbackOf(c, d)])
  /\ ProgUnchanged

\* the catalogs ScentEmbeddings is run on: the first n items
Catalogs == {catalogOf(SubSeq(OilOrder, 1, n)) : n \in 0..MaxItems}

\* what the Math.random() calls of one round of getTopEigenvectors may
\* return: the same two values for the odd and for the even indexes
randomPatterns(size) ==
  {[k \in 1..size |-> IF k % 2 = 1 THEN a ELSE b] : a, b \in RandomValues}

\* ScentEmbeddings.generateVisualizationData: buildVocabulary,
\* createEmbeddings, reduceToPCA
ApplyReduceToPCA ==
  /\ prog = "Fn" /\ calc = NoCalc
  /\ \E catalog \in Catalogs :
       \E random \in [1..2 -> randomPatterns(Len(buildVocabulary(catalog)))] :
         calc' = Calc("reduceToPCA",
                      [n |-> Len(catalog), catalog |-> catalog, random |-> random],
                      reduceToPCA(catalog, random))
  /\ ProgUnchanged

\* 1 - r: the draw as far above 0.5 as r is below it
mirrored(r) == Sub(FromInt(1), r)

\* a second run of performMDS on the same distances; Math.random() has no
\* seed, so the run may draw what the first run drew or anything else (the
\* mirrored draws stand for the rest)
RunPerformMDSAgain ==
  /\ prog = "Fn" /\ calc.op = "performMDS"
  /\ \E random \in {calc.input.random,
                    [e \in 1..maxEigen |-> [r \in 1..calc.input.n |->
                                              mirrored(calc.input.random[e][r])]]} :
       calc' = Calc("performMDS", [calc.input EXCEPT !.random = random],
                    Returned(performMDS(calc.input.distances, random)))
  /\ ProgUnchanged

\* a second run of the layout loop on the same similarities
RunForceLayoutAgain ==
  /\ prog = "Fn" /\ calc.op = "forceLayout"
  /\ \E random \in {calc.input.random,
                    [o \in 1..calc.input.n |->
                       [x |-> mirrored(calc.input.random[o].x),
                        y |-> mirrored(calc.input.random[o].y)]]} :
       calc' = Calc("forceLayout", [calc.input EXCEPT !.random = random],
                    Returned(forceLayout(calc.input.sims, random)))
  /\ ProgUnchanged

\* a second run of generateVisualizationData on the same catalog
RunReduceToPCAAgain ==
  /\ prog = "Fn" /\ calc.op = "reduceToPCA"
  /\ \E random \in {calc.input.random,
                    [v \in 1..2 |-> [r \in DOMAIN calc.input.random[v] |->
                                       mirrored(calc.input.random[v][r])]]} :
       calc' = Calc("reduceToPCA", [calc.input EXCEPT !.random = random],
                    reduceToPCA(calc.input.catalog, random))
  /\ ProgUnchanged

\* the caller has its result; the next function can be applied
Return ==
  /\ prog = "Fn" /\ calc # NoCalc
  /\ calc' = NoCalc
  /\ ProgUnchanged

InitFn ==
  /\ prog = "Fn"
  /\ pc = "fn"
  /\ i = 0 /\ j = 0
  /\ cacheFile = FileMissing
  /\ similarityMatrix = EmptyMatrix
  /\ processedPairs = 0
  /\ similarities = NoSimilarities
  /\ completed = 0
  /\ call = NoCall
  /\ lateTimers = FALSE
  /\ lastEvent = NoEvent
  /\ lastReturn = NoReturn
  /\ lastWrite = "none"
  /\ distances = NoDistances
  /\ calc = NoCalc
  /\ llmService = NewService
  /\ inflight = NothingInFlight

NextFn ==
  \/ ApplyCreateDistanceMatrix
  \/ ApplyNotesDistances
  \/ ApplyPerformMDS
  \/ ApplyCenterDistanceMatrix
  \/ ApplyForceLayout
  \/ ApplyTwoItemLayout
  \/ ApplyTwoItemMDS
  \/ ApplyReduceToPCA
  \/ ApplyAssembleEmbeddings
  \/ ApplyCreateEmbeddings
  \/ ApplyFallbacks
  \/ ApplyGenerateDemoBlend
  \/ RunPerformMDSAgain
  \/ RunForceLayoutAgain
  \/ RunReduceToPCAAgain
  \/ Return

FnSpec == InitFn /\ [][NextFn]_vars

(***************************************************************************)
(* LLMService (llmService.js): one instance, any number of callers.  A     *)
(* step is what runs between two awaits.  inflight.loads counts the        *)
(* model.load() calls not yet settled, inflight.closes the store.close()   *)
(* calls, inflight.runs holds the requests whose model.run() is awaited,   *)
(* inflight.promise what became of the promise each request was given.     *)
(* inflight.shutdownDone records that a shutdown() has completed and no    *)
(* initialize() was called since.                                          *)
(***************************************************************************)
SvcUnchanged ==
  UNCHANGED <<prog, pc, i, j, similarityMatrix, cacheFile, processedPairs,
              similarities, completed, call, lateTimers, lastEvent,
              lastReturn, lastWrite, distances, calc>>

\* the oil pairs requests name; vanilla is not in the catalog
RequestOils == {<<"lavender", "rose">>, <<"lavender", "vanilla">>}

\* _compareSimilarity's validation: both oils are in the database
oilsFound(request) ==
  request.oil1 \in DOMAIN essentialOils /\ request.oil2 \in DOMAIN essentialOils

\* variant for sensitivity checks: initialize() without its guard
mustLoadAlways(svc) == TRUE

\* initialize() goes past its guard
mustLoad(svc) == ~(svc.isLoaded \/ svc.isLoading)

\* initialize() up to `await this.model.load(...)`
initialize(svc, fl) ==
  IF mustLoad(svc)
  THEN <<[svc EXCEPT !.isLoading = TRUE, !.store = "open", !.model = "object"],
         [fl EXCEPT !.loads = @ + 1, !.shutdownDone = FALSE]>>
  ELSE <<svc, [fl EXCEPT !.shutdownDone = FALSE]>>

\* _compareSimilarity of a valid request up to `await this.model.run(messages)`,
\* called by compareSimilarity ("direct") or by processQueue ("queue")
startRun(request, via, fl) ==
  [id |-> request.id, via |-> via, afterShutdown |-> fl.shutdownDone]

RECURSIVE processQueue(_, _)
\* processQueue from its loop test up to its next await of a model.run():
\* requests for unknown oils are rejected on the way
processQueue(svc, fl) ==
  IF Len(svc.queue) > 0 /\ svc.isLoaded
  THEN LET request == Head(svc.queue)
           shifted == [svc EXCEPT !.queue = Tail(svc.queue)]
       IN  IF oilsFound(request)
           THEN <<shifted, [fl EXCEPT !.runs = @ \cup {startRun(request, "queue", fl)}]>>
           ELSE processQueue(shifted, [fl EXCEPT !.promise[request.id] = "rejected"])
  ELSE <<svc, fl>>

\* a caller calls llmService.initialize()
Initialize ==
  /\ prog = "Svc"
  /\ llmService' = initialize(llmService, inflight)[1]
  /\ inflight' = initialize(llmService, inflight)[2]
  /\ SvcUnchanged

\* model.load() resolves: the rest of initialize's try block
OnLoaded ==
  /\ prog = "Svc" /\ inflight.loads > 0
  /\ LET svc == [llmService EXCEPT !.isLoaded = TRUE, !.isLoading = FALSE]
         fl  == [inflight EXCEPT !.loads = @ - 1]
     IN  /\ llmService' = processQueue(svc, fl)[1]
         /\ inflight' = processQueue(svc, fl)[2]
  /\ SvcUnchanged

\* model.load() rejects: initialize's catch block; initialize() rejects
OnLoadFailed ==
  /\ prog = "Svc" /\ inflight.loads > 0
  /\ llmService' = [llmService EXCEPT !.isLoading = FALSE]
  /\ inflight' = [inflight EXCEPT !.loads = @ - 1]
  /\ SvcUnchanged

\* a caller calls llmService.compareSimilarity(oil1, oil2)
CompareSimilarity ==
  /\ prog = "Svc"
  /\ \E r \in 1..MaxRequests, oils \in RequestOils :
       LET request == [id |-> r, oil1 |-> oils[1], oil2 |-> oils[2]]
           started == IF ~llmService.isLoading
                      THEN initialize(llmService, inflight)
                      ELSE <<llmService, inflight>>
       IN  /\ inflight.promise[r] = "none"
           /\ IF ~llmService.isLoaded
              THEN /\ llmService' = [started[1] EXCEPT !.queue = Append(@, request)]
                   /\ inflight' = [started[2] EXCEPT !.promise[r] = "pending"]
              ELSE /\ llmService' = llmService
                   /\ inflight' =
                        IF oilsFound(request)
                        THEN [inflight EXCEPT !.promise[r] = "pending",
                                              !.runs = @ \cup {startRun(request, "direct", inflight)}]
                        ELSE [inflight EXCEPT !.promise[r] = "rejected"]
  /\ SvcUnchanged

\* model.run() and the response stream of a request settle: the promise of
\* the request settles, and a processQueue that awaited it goes on
OnRunSettled ==
  /\ prog = "Svc"
  /\ \E run \in inflight.runs, outcome \in {"resolved", "rejected"} :
       LET fl == [inflight EXCEPT !.runs = @ \ {run}, !.promise[run.id] = outcome]
       IN  IF run.via = "queue"
           THEN /\ llmService' = processQueue(llmService, fl)[1]
                /\ inflight' = processQueue(llmService, fl)[2]
           ELSE /\ llmService' = llmService
                /\ inflight' = fl
  /\ SvcUnchanged

\* a caller calls llmService.shutdown()
Shutdown ==
  /\ prog = "Svc"
  /\ IF llmService.store # "null"
     THEN /\ inflight.closes < MaxCloses
          /\ inflight' = [inflight EXCEPT !.closes = @ + 1]
          /\ llmService' = llmService
     ELSE /\ llmService' = [llmService EXCEPT !.isLoaded = FALSE]
          /\ inflight' = [inflight EXCEPT !.shutdownDone = TRUE]
  /\ SvcUnchanged

\* store.close() resolves: the rest of shutdown()
OnStoreClosed ==
  /\ prog = "Svc" /\ inflight.closes > 0
  /\ llmService' = [llmService EXCEPT !.isLoaded = FALSE, !.store = "closed"]
  /\ inflight' = [inflight EXCEPT !.closes = @ - 1, !.shutdownDone = TRUE]
  /\ SvcUnchanged

\* store.close() rejects: shutdown() rejects before it clears isLoaded
OnStoreCloseFailed ==
  /\ prog = "Svc" /\ inflight.closes > 0
  /\ inflight' = [inflight EXCEPT !.closes = @ - 1]
  /\ UNCHANGED llmService
  /\ SvcUnchanged

InitSvc ==
  /\ prog = "Svc"
  /\ pc = "svc"
  /\ i = 0 /\ j = 0
  /\ cacheFile = FileMissing
  /\ similarityMatrix = EmptyMatrix
  /\ processedPairs = 0
  /\ similarities = NoSimilarities
  /\ completed = 0
  /\ call = NoCall
  /\ lateTimers = FALSE
  /\ lastEvent = NoEvent
  /\ lastReturn = NoReturn
  /\ lastWrite = "none"
  /\ distances = NoDistances
  /\ calc = NoCalc
  /\ llmService = NewService
  /\ inflight = NothingInFlight

NextSvc ==
  \/ Initialize
  \/ OnLoaded
  \/ OnLoadFailed
  \/ CompareSimilarity
  \/ OnRunSettled
  \/ Shutdown
  \/ OnStoreClosed
  \/ OnStoreCloseFailed

SvcSpec == InitSvc /\ [][NextSvc]_vars

\* every awaited operation of the libraries settles; callers are free to call
\* or not
SvcFairSpec ==
  /\ SvcSpec
  /\ WF_vars(OnLoaded \/ OnLoadFailed)
  /\ WF_vars(OnRunSettled)
  /\ WF_vars(OnStoreClosed \/ OnStoreCloseFailed)

(***************************************************************************)
(* getSimilarityScore called by several callers that do not await one      *)
(* another, on one LLMScentEmbeddings instance.  inflight.processes holds  *)
(* the oracle processes spawned so far, with the state of the promise each *)
(* call returned.                                                          *)
(***************************************************************************)
ConcUnchanged ==
  UNCHANGED <<prog, pc, i, j, cacheFile, processedPairs, similarities, completed,
              call, lateTimers, lastEvent, lastWrite, distances, calc, llmService>>

\* the argument lists of the concurrent calls
CallOils == {<<"lavender", "rose">>, <<"rose", "lavender">>, <<"lavender", "bergamot">>}

\* getSimilarityScore(oil1, oil2) up to its return: the cached entry, or the
\* promise of a process it spawned
GetSimilarityScore ==
  /\ prog = "Conc"
  /\ \E oils \in CallOils :
       LET key == getSimilarityKey(oils[1], oils[2])
       IN  IF Cached(similarityMatrix, key)
           THEN /\ lastReturn' = [oil1 |-> oils[1], oil2 |-> oils[2], state |-> "resolved",
                                  value |-> Get(similarityMatrix, key)]
                /\ UNCHANGED inflight
           ELSE /\ Cardinality(inflight.processes) < MaxCalls
                /\ inflight' =
                     [inflight EXCEPT !.processes =
                        @ \cup {[id |-> Cardinality(@) + 1, oil1 |-> oils[1],
                                 oil2 |-> oils[2], state |-> "pending"]}]
                /\ UNCHANGED lastReturn
  /\ UNCHANGED similarityMatrix
  /\ ConcUnchanged

\* the process p in its state st
Settle(p, st) ==
  [inflight EXCEPT !.processes = (@ \ {p}) \cup {[p EXCEPT !.state = st]}]

\* the 'close' handler of a spawned process
OnCloseConcurrent ==
  /\ prog = "Conc"
  /\ \E p \in inflight.processes, code \in ExitCodes, out \in LLMOutputs :
       LET stores == code = 0 /\ out.kind = "json"
       IN  /\ p.state = "pending"
           /\ similarityMatrix' =
                IF stores
                THEN Put(similarityMatrix, getSimilarityKey(p.oil1, p.oil2),
                         OracleEntry(p.oil1, p.oil2, out))
                ELSE similarityMatrix
           /\ inflight' = Settle(p, IF stores THEN "resolved" ELSE "rejected")
  /\ UNCHANGED lastReturn
  /\ ConcUnchanged

\* the 'error' handler of a process that could not be spawned
OnErrorConcurrent ==
  /\ prog = "Conc"
  /\ \E p \in inflight.processes :
       /\ p.state = "pending"
       /\ inflight' = Settle(p, "rejected")
  /\ UNCHANGED <<similarityMatrix, lastReturn>>
  /\ ConcUnchanged

InitConc ==
  /\ prog = "Conc"
  /\ pc = "conc"
  /\ i = 0 /\ j = 0
  /\ cacheFile = FileMissing
  /\ similarityMatrix = EmptyMatrix
  /\ processedPairs = 0
  /\ similarities = NoSimilarities
  /\ completed = 0
  /\ call = NoCall
  /\ lateTimers = FALSE
  /\ lastEvent = NoEvent
  /\ lastReturn = NoReturn
  /\ lastWrite = "none"
  /\ distances = NoDistances
  /\ calc = NoCalc
  /\ llmService = NewService
  /\ inflight = NothingInFlight

NextConc ==
  \/ GetSimilarityScore
  \/ OnCloseConcurrent
  \/ OnErrorConcurrent

ConcSpec == InitConc /\ [][NextConc]_vars

(***************************************************************************)
(* generateSimilarityMatrix on a catalog with more than five pairs, whose  *)
(* periodic save comes into play.  Each step is one turn of the pair loop: *)
(* the awaited getSimilarityScore and the try or catch branch after it.    *)
(***************************************************************************)
ManyUnchanged ==
  UNCHANGED <<prog, similarities, completed, call, lateTimers, lastEvent, lastReturn,
              distances, calc, llmService, inflight>>

\* this.oilNames of the longer catalog
manyNames == SubSeq(OilOrder, 1, ManyOils)

\* generateSimilarityMatrix up to its loop: loadCache()
ManyLoadCache ==
  /\ prog = "Many" /\ pc = "start"
  /\ similarityMatrix' = loadCache(similarityMatrix, cacheFile)
  /\ processedPairs' = 0
  /\ i' = 1 /\ j' = 2
  /\ pc' = "loop"
  /\ UNCHANGED <<cacheFile, lastWrite>>
  /\ ManyUnchanged

\* the loop turn for the pair (i, j): the entry is cached, or the oracle
\* answers and the entry is stored, or the call rejects and the catch block
\* stores the fallback entry; a counted pair saves the cache when the count
\* is a multiple of 5
ManyPair ==
  /\ prog = "Many" /\ pc = "loop" /\ i < j /\ j <= ManyOils
  /\ LET oil1 == manyNames[i]
         oil2 == manyNames[j]
         key  == getSimilarityKey(oil1, oil2)
     IN  \E resolved \in BOOLEAN :
           /\ Cached(similarityMatrix, key) => resolved
           /\ similarityMatrix' =
                IF Cached(similarityMatrix, key) THEN similarityMatrix
                ELSE IF resolved
                THEN Put(similarityMatrix, key,
                         OracleEntry(oil1, oil2, [kind |-> "json", similarity |-> Num(100)]))
                ELSE Put(similarityMatrix, key, FallbackEntry(oil1, oil2))
           /\ processedPairs' = IF resolved THEN processedPairs + 1 ELSE processedPairs
           /\ IF resolved /\ processedPairs' % 5 = 0
              THEN \E w \in WriteOutcomes :
                     /\ cacheFile' = saveCache(similarityMatrix', cacheFile, w)
                     /\ lastWrite' = w
              ELSE UNCHANGED <<cacheFile, lastWrite>>
  /\ i' = positionAfter(i, j, ManyOils)[1]
  /\ j' = positionAfter(i, j, ManyOils)[2]
  /\ UNCHANGED pc
  /\ ManyUnchanged

\* the loop is over: the final saveCache()
ManyFinish ==
  /\ prog = "Many" /\ pc = "loop" /\ ~(i < j /\ j <= ManyOils)
  /\ \E w \in WriteOutcomes :
       /\ cacheFile' = saveCache(similarityMatrix, cacheFile, w)
       /\ lastWrite' = w
  /\ pc' = "done"
  /\ UNCHANGED <<i, j, similarityMatrix, processedPairs>>
  /\ ManyUnchanged

InitMany ==
  /\ prog = "Many"
  /\ pc = "start"
  /\ i = 0 /\ j = 0
  /\ cacheFile \in {FileMissing,
                    FileObject([kind |-> "object",
                                members |-> {<<FirstKey, StringifyValue(StoredEntry)>>}])}
  /\ similarityMatrix = EmptyMatrix
  /\ processedPairs = 0
  /\ similarities = NoSimilarities
  /\ completed = 0
  /\ call = NoCall
  /\ lateTimers = FALSE
  /\ lastEvent = NoEvent
  /\ lastReturn = NoReturn
  /\ lastWrite = "none"
  /\ distances = NoDistances
  /\ calc = NoCalc
  /\ llmService = NewService
  /\ inflight = NothingInFlight

NextMany ==
  \/ ManyLoadCache
  \/ ManyPair
  \/ ManyFinish

ManySpec == InitMany /\ [][NextMany]_vars




(***************************************************************************)
(* Properties                                                              *)
(***************************************************************************)
Completed == pc \in {"done", "embedded"}

\* an entry of the similarity matrix, as opposed to a null member or a hole
IsEntry(v) == v.t = "object"

\* every unordered pair of the catalog has its similarity
AllPairsPresent ==
  \A a \in 1..nOils, b \in 1..nOils :
    a < b =>
      IF prog = "LLM"
      THEN IsEntry(Get(similarityMatrix, getSimilarityKey(oilNames[a], oilNames[b])))
      ELSE /\ PairKey(oilNames[a], oilNames[b]) \in DOMAIN similarities
           /\ PairKey(oilNames[b], oilNames[a]) \in DOMAIN similarities

\* C1: matrix generation never aborts, whatever each oracle call does, and
\* once it has run to completion every unordered pair has an entry.
C1_GenerationNeverAborts ==
  /\ pc # "aborted"
  /\ Completed => AllPairsPresent

\* the last event was a failure of the oracle during the pair loop
OracleFailed ==
  /\ lastEvent.caller = "loop"
  /\ lastEvent.kind \in {"exitN", "spawnError", "timeout"}

\* the pair of the last event holds the generator's fallback value
FallbackStored ==
  IF prog = "LLM"
  THEN LET v == Get(similarityMatrix, getSimilarityKey(lastEvent.oil1, lastEvent.oil2))
       IN /\ IsEntry(v)
          /\ v.similarity = FallbackEntry(lastEvent.oil1, lastEvent.oil2).similarity
  ELSE LET k12 == PairKey(lastEvent.oil1, lastEvent.oil2)
           k21 == PairKey(lastEvent.oil2, lastEvent.oil1)
           fb  == getFallbackSimilarity(lastEvent.oil1, lastEvent.oil2)
       IN /\ k12 \in DOMAIN similarities /\ similarities[k12] = fb
          /\ k21 \in DOMAIN similarities /\ similarities[k21] = fb

\* C2: when the oracle fails for a pair (non-zero exit, spawn failure,
\* timeout), the similarity stored for the pair is the generator's fallback.
C2_FailureStoresFallback == OracleFailed => FallbackStored

\* C3: every awaited oracle invocation settles (by exit, error or timeout),
\* so that the generation proceeds and eventually completes.
C3_InvocationSettles == (pc = "awaiting") ~> (pc # "awaiting")

\* C4: getSimilarityKey is symmetric in its arguments, so a call in either
\* argument order returns the entry stored for the pair and does not spawn
\* the oracle when the pair has an entry.
C4_KeySymmetric ==
  /\ (prog = "LLM" /\ call.active) =>
       getSimilarityKey(call.oil1, call.oil2) = getSimilarityKey(call.oil2, call.oil1)
  /\ lastReturn.state = "resolved" =>
       /\ IsEntry(lastReturn.value)
       /\ lastReturn.value =
            Get(similarityMatrix, getSimilarityKey(lastReturn.oil2, lastReturn.oil1))
  /\ (call.active /\ call.caller = "outside") =>
       ~IsEntry(Get(similarityMatrix, getSimilarityKey(call.oil2, call.oil1)))

\* a call in the order opposite to the stored entry's returned that entry
C4_Witness ==
  /\ lastReturn.state = "resolved"
  /\ lastReturn.oil1 = oilNames[3] /\ lastReturn.oil2 = oilNames[1]
  /\ lastReturn.value.oil1 = Str(oilNames[1])
  /\ lastReturn.value.oil2 = Str(oilNames[3])
  /\ lastReturn.value.reasoning = Str("llm")

\* the two matrices hold the same value under every key
SameEntries(m1, m2) ==
  \A k \in DOMAIN m1.ent \cup DOMAIN m2.ent : Get(m1, k) = Get(m2, k)

\* the run is complete and its final saveCache wrote the file
FinalWriteSucceeded == prog = "LLM" /\ Completed /\ lastWrite = "written"

\* C5: after saveCache has written the matrix without error, loadCache on a
\* fresh instance yields exactly the entries that were stored.
C5_CacheRoundTrip ==
  FinalWriteSucceeded => SameEntries(loadCache(EmptyMatrix, cacheFile), similarityMatrix)

\* a step that invokes the oracle for the pair key
SpawnsFor(key) ==
  /\ ~call.active /\ call'.active
  /\ getSimilarityKey(call'.oil1, call'.oil2) = key

\* C6: within one instance an entry that exists (loaded from the cache file
\* or created earlier in the run) is never changed or removed by a later
\* step, and no step invokes the oracle for its pair.
C6_EntriesNeverMutated ==
  [][ (prog = "LLM" /\ pc' # "start") =>
        \A key \in DOMAIN similarityMatrix.ent :
          IsEntry(Get(similarityMatrix, key)) =>
            /\ Get(similarityMatrix', key) = Get(similarityMatrix, key)
            /\ ~SpawnsFor(key) ]_vars

\* the entry loaded from the cache file is still there after the run, and a
\* later getSimilarityScore call returned it
C6_Witness ==
  /\ prog = "LLM" /\ pc = "embedded"
  /\ Get(similarityMatrix, FirstKey) = StoredEntry
  /\ lastReturn.state = "resolved" /\ lastReturn.value = StoredEntry
  /\ lastEvent.kind = "cached"

\* the state right after loadCache
JustLoaded ==
  /\ prog = "LLM" /\ pc = "loop" /\ i = 1 /\ j = 2
  /\ processedPairs = 0 /\ lastEvent = NoEvent

\* the cache file is missing, unreadable, not JSON, or its similarityMatrix
\* member is not a mapping
Malformed(file) ==
  \/ file.state # "text"
  \/ file.root # "object"
  \/ file.sm.kind # "object"

\* C7: loadCache fails soft: a missing, unreadable or malformed cache file
\* is treated as an empty cache and the generation that follows completes
\* instead of failing.
C7_LoadCacheFailsSoft ==
  /\ (JustLoaded /\ Malformed(cacheFile)) => similarityMatrix = EmptyMatrix
  /\ prog = "LLM" => pc # "aborted"

\* the entries the cache file holds under "similarityMatrix"
PersistedEntries ==
  [k \in {m[1] : m \in cacheFile.sm.members} |->
     ParseValue((CHOOSE m \in cacheFile.sm.members : m[1] = k)[2])]

\* C8: when the generation completes and its final write succeeds, the
\* persisted matrix holds every in-memory entry, the fallback ones included,
\* and nothing else.
C8_PersistedEqualsMemory ==
  FinalWriteSucceeded =>
    /\ DOMAIN PersistedEntries = DOMAIN similarityMatrix.ent
    /\ \A k \in DOMAIN similarityMatrix.ent : PersistedEntries[k] = similarityMatrix.ent[k]

\* the pairs of distinct catalog positions
Pairs == {p \in (1..nOils) \X (1..nOils) : p[1] # p[2]}

\* what the LLM matrix holds for the pair at positions p
StoredFor(p) == Get(similarityMatrix, getSimilarityKey(oilNames[p[1]], oilNames[p[2]]))

\* the pair at positions p has a stored similarity within 0..100
InRangeLLM(p) ==
  /\ IsEntry(StoredFor(p))
  /\ StoredFor(p).similarity.k = "number"
  /\ StoredFor(p).similarity.n \in 0..100

\* every stored similarity lies within the generator's declared range
AllInRange ==
  IF prog = "LLM"
  THEN \A p \in Pairs : IsEntry(StoredFor(p)) => InRangeLLM(p)
  ELSE \A k \in DOMAIN similarities : ~similarities[k].nan /\ similarities[k].v \in 0..Unit

\* the distance that stands for 1
One == IF prog = "LLM" THEN 100 ELSE Unit

\* C9: for stored similarities within the declared range the distance
\* matrix has a zero diagonal, is symmetric, and has every entry in [0, 1].
C9_DistanceMatrixWellFormed ==
  (pc = "embedded" /\ AllInRange) =>
    \A a \in 1..nOils, b \in 1..nOils :
      /\ distances[a][a] = 0
      /\ distances[a][b] = distances[b][a]
      /\ distances[a][b] \in 0..One

\* a distance matrix built from a loaded entry (80), a fallback entry of two
\* categories (30) and in-range entries only
C9_Witness ==
  /\ prog = "LLM" /\ pc = "embedded" /\ AllInRange
  /\ StoredFor(<<1, 2>>) = StoredEntry
  /\ StoredFor(<<1, 3>>) = FallbackEntry(oilNames[1], oilNames[3])
  /\ distances[1][2] = 20 /\ distances[2][1] = 20
  /\ distances[1][3] = 70 /\ distances[3][1] = 70

\* C10: for every pair i # j whose stored similarity s lies in 0..100 the
\* distance is (100 - s) / 100, so that over the whole range a larger
\* similarity gives a smaller distance.
C10_DistanceFormula ==
  (prog = "LLM" /\ pc = "embedded") =>
    /\ \A p \in Pairs :
         InRangeLLM(p) => distances[p[1]][p[2]] = 100 - StoredFor(p).similarity.n
    /\ \A p \in Pairs, q \in Pairs :
         (InRangeLLM(p) /\ InRangeLLM(q)
            /\ StoredFor(p).similarity.n < StoredFor(q).similarity.n)
           => distances[p[1]][p[2]] > distances[q[1]][q[2]]


(***************************************************************************)
(* Properties of the assembled similarities                                *)
(***************************************************************************)
\* what this.similarities holds for (a, b) and for (b, a)
BothStored(a, b) ==
  /\ PairKey(a, b) \in DOMAIN similarities
  /\ PairKey(b, a) \in DOMAIN similarities

\* C12: after the similarity assembly of FastAIDemo and of
\* AINotesVisualization, for all items a and b the value stored for (a, b)
\* is the value stored for (b, a), whatever the oracle invocations
\* returned and wherever the fallback was used.
C12_SimilaritiesSymmetric ==
  (prog \in {"Fast", "Notes"} /\ Completed) =>
    \A a, b \in Oils :
      /\ BothStored(a, b)
      /\ similarities[PairKey(a, b)] = similarities[PairKey(b, a)]

\* an assembly is over in which pairs got different values, the last one
\* from a fallback
C12_Witness ==
  /\ prog \in {"Fast", "Notes"} /\ Completed
  /\ lastEvent.kind \in {"error", "timeout"}
  /\ \E a, b, c \in Oils :
       /\ a # b /\ b # c /\ a # c
       /\ BothStored(a, b) /\ BothStored(b, c)
       /\ similarities[PairKey(a, b)] # similarities[PairKey(b, c)]

\* what LLMScentEmbeddings.generateVisualizationData returns once
\* generateEmbeddings is over (the fields built from the similarities)
generateVisualizationData ==
  [similarityMatrix |-> similarityMatrix, totalOils |-> nOils]

\* the similarity-matrix output holds the maximum for item o against itself
SelfSimilarityIsMax(o) ==
  IF prog = "LLM"
  THEN LET v == Get(generateVisualizationData.similarityMatrix, getSimilarityKey(o, o))
       IN IsEntry(v) /\ v.similarity = Num(100)
  ELSE /\ PairKey(o, o) \in DOMAIN similarities
       /\ similarities[PairKey(o, o)] = Val(Unit)

\* the generator has produced the similarity matrix that goes with its embedding
MatrixOutput == IF prog = "LLM" THEN pc = "embedded" ELSE Completed

\* C13: every similarity-matrix output that accompanies an embedding
\* (FastAIDemo.similarities, AINotesVisualization.similarities, the
\* similarityMatrix returned by generateVisualizationData) holds for every
\* item a self-similarity entry with the maximum similarity, whatever the
\* oracle returned.
C13_SelfSimilarityMax ==
  (prog \in {"LLM", "Fast", "Notes"} /\ MatrixOutput) =>
    \A o \in Oils : SelfSimilarityIsMax(o)

(***************************************************************************)
(* Properties of the pipeline's functions (FnSpec)                         *)
(***************************************************************************)
\* the pair at positions p has no entry in the input of the last application
MissingPair(p) == p \notin calc.input.pairs /\ <<p[2], p[1]>> \notin calc.input.pairs

\* the neutral distance 0.5 on the scale of the builder that ran
NeutralDistance == IF calc.op = "createDistanceMatrix" THEN 50 ELSE Unit \div 2

\* C11: a pair without an entry in the similarity input gets the neutral
\* distance 0.5 from the distance-matrix builder (createDistanceMatrix, and
\* the distance loop of AINotesVisualization.generateEmbeddings), never the
\* distance 1 of similarity zero.
C11_MissingPairNeutral ==
  calc.op \in {"createDistanceMatrix", "notesDistances"} =>
    \A p \in Pairs : MissingPair(p) => calc.output[p[1]][p[2]] = NeutralDistance


\* the input of the last application is degenerate: every distance is 0
\* (for the layout: every similarity is 1)
AllZeroInput ==
  IF calc.op = "performMDS"
  THEN \A r, c \in 1..calc.input.n : calc.input.distances[r][c] = Fin(0)
  ELSE \A k \in DOMAIN calc.input.sims : calc.input.sims[k] = Val(Unit)

\* every item got a finite x and a finite y
FiniteCoordinates ==
  IF calc.op = "performMDS"
  THEN /\ ~calc.output.thrown
       /\ Len(calc.output.value) = calc.input.n
       /\ \A r \in 1..calc.input.n : \A d \in 1..maxEigen :
            IsFinite(calc.output.value[r][d])
  ELSE /\ ~calc.output.thrown
       /\ Len(calc.output.value) = calc.input.n
       /\ \A o \in 1..calc.input.n :
            IsFinite(calc.output.value[o].x) /\ IsFinite(calc.output.value[o].y)

\* C14: for an all-zero distance matrix over at least two items each
\* reducer (performMDS with eigenDecomposition, the force-directed loop of
\* FastAIDemo.generateEmbeddings) returns a finite x and a finite y for
\* every item: the degenerate input causes no division by zero.
C14_DegenerateInputStaysFinite ==
  (calc.op \in {"performMDS", "forceLayout"} /\ calc.input.n >= 2 /\ AllZeroInput)
    => FiniteCoordinates


\* C15: a reducer invoked with fewer than two items (performMDS on a 0x0
\* or 1x1 distance matrix, reduceToPCA on a catalog of 0 or 1 items)
\* reports a precondition violation to its caller: it raises an error and
\* returns no coordinates.
C15_FewItemsRejected ==
  (calc.op \in {"performMDS", "reduceToPCA"} /\ calc.input.n < 2) => calc.output.thrown


\* the coordinate rows the last assembly started from
AssembledFrom ==
  IF calc.op = "assembleEmbeddings" THEN calc.input.coordinates
  ELSE pcaCoordinates(calc.input.catalog, calc.input.random)

\* the record rec carries row and the catalog data of item, description included
CarriesAll(rec, row, item) ==
  /\ rec.x = row[1] /\ rec.y = row[2]
  /\ rec.category = item.data.category
  /\ rec.intensity = item.data.intensity
  /\ rec.notes = item.data.notes
  /\ "description" \in DOMAIN rec
  /\ rec.description = item.data.description

\* assembling once more from the same rows and metadata
AssembledAgain ==
  IF calc.op = "assembleEmbeddings"
  THEN Returned(assembleEmbeddings(SeqOf(LAMBDA k : calc.input.catalog[k].name, calc.input.n),
                                   calc.input.coordinates))
  ELSE reduceToPCA(calc.input.catalog, calc.input.random)

\* C16: the embeddings output holds exactly one record per catalog item,
\* keyed by the item's identifier; the record of the i-th item carries the
\* i-th coordinate row as (x, y) with the item's category, intensity,
\* description and notes as the catalog has them; assembling twice from the
\* same coordinates and metadata gives the same output.
C16_EmbeddingAssembly ==
  (calc.op \in {"assembleEmbeddings", "reduceToPCA"} /\ ~calc.output.thrown) =>
    /\ DOMAIN calc.output.value = {calc.input.catalog[k].name : k \in 1..calc.input.n}
    /\ \A k \in 1..calc.input.n :
         CarriesAll(calc.output.value[calc.input.catalog[k].name], AssembledFrom[k],
                    calc.input.catalog[k])
    /\ AssembledAgain = calc.output


\* the weight of token in the vector of the k-th item
WeightOf(k, token) ==
  LET index == CHOOSE q \in DOMAIN calc.output.vocabularyArray :
                 calc.output.vocabularyArray[q] = token
  IN calc.output.embeddings[k][index]

\* x is a number above 0
Positive(x) == x.k = "fin" /\ x.v > 0

\* the shared token weighs 0 everywhere; a token of one item weighs more
\* than 0 for its owner and 0 for the others
SharedZeroUniquePositive ==
  \A k \in 1..calc.input.n :
    /\ WeightOf(k, "shared") = Fin(0)
    /\ \A m \in 1..calc.input.n :
         IF m = k THEN Positive(WeightOf(k, uniqueTokens[m]))
         ELSE WeightOf(k, uniqueTokens[m]) = Fin(0)

\* C17 as stated: for any catalog in which every item has one token shared
\* by all and one token of its own, createEmbeddings gives the shared token
\* weight 0 in every vector and each unique token a weight above 0 in its
\* owner's vector and 0 in the others.
C17_TfIdfAnyCatalog ==
  calc.op = "createEmbeddings" => SharedZeroUniquePositive

\* C17, amended: the same for every such catalog of at least two items (in
\* a catalog of one item the item's own token is in every document, and its
\* idf is log(1/1) = 0 as well).
C17_TfIdfTwoOrMore ==
  (calc.op = "createEmbeddings" /\ calc.input.n >= 2) => SharedZeroUniquePositive

\* createEmbeddings has run on such a catalog of three items, and the
\* second item's own token has its weight
C17_Witness ==
  /\ calc.op = "createEmbeddings" /\ calc.input.n = 3
  /\ Positive(WeightOf(2, uniqueTokens[2]))
  /\ WeightOf(2, "shared") = Fin(0)


\* the similarity input of a reducer's run: the distances, the similarities
\* or the catalog, without what Math.random() returned
ReducerInput(c) ==
  IF c.op = "performMDS" THEN c.input.distances
  ELSE IF c.op = "forceLayout" THEN c.input.sims
  ELSE c.input.catalog

\* C18: two independent runs of a reducer (performMDS, the PCA path, the
\* force-directed generateEmbeddings) on the same similarity input give
\* every item the same coordinates.  No reducer takes a seed, so "the same
\* seed" adds nothing to "the same input".
C18_RunsAgree ==
  [][ ( /\ calc.op \in {"performMDS", "forceLayout", "reduceToPCA"}
        /\ calc'.op = calc.op
        /\ ReducerInput(calc') = ReducerInput(calc) )
      => calc'.output = calc.output ]_vars


\* C19: for every pair of items of one category and every pair of items of
\* two categories, the fallback similarity of the first pair is strictly
\* greater than that of the second, whatever the intensities and notes (the
\* 60 / 30 of LLMScentEmbeddings, getFallbackSimilarity of FastAIDemo and
\* AINotesVisualization).
C19_SameCategoryRanksHigher ==
  calc.op = "fallbacks" =>
    /\ calc.output.llmSame > calc.output.llmDifferent
    /\ ~calc.output.same.nan /\ ~calc.output.different.nan
    /\ calc.output.same.v > calc.output.different.v



\* the items generateDemoBlend selected for a note
Selected(note) ==
  { item \in { calc.output.selectedOils[k] : k \in DOMAIN calc.output.selectedOils } :
      item.note = note }

PercentageOf(note) == { item.percentage : item \in Selected(note) }

RECURSIVE PercentagesTo(_)
PercentagesTo(k) ==
  IF k = 0 THEN 0 ELSE PercentagesTo(k - 1) + calc.output.selectedOils[k].percentage

ListedTotal == PercentagesTo(Len(calc.output.selectedOils))

ThreeDifferentOils ==
  /\ calc.op = "generateDemoBlend"
  /\ Cardinality({calc.input[k] : k \in DOMAIN calc.input}) >= 3

OneOfEachNote ==
  /\ \A note \in {"TOP", "MIDDLE", "BASE"} : Cardinality(Selected(note)) = 1
  /\ Len(calc.output.selectedOils) = 3

PairwiseDistinct ==
  \A k1, k2 \in DOMAIN calc.output.selectedOils :
    k1 # k2 => calc.output.selectedOils[k1].oil # calc.output.selectedOils[k2].oil

\* C20: given at least three different valid oils, generateDemoBlend selects
\* exactly one TOP, one MIDDLE and one BASE oil, the three selected oils are
\* pairwise distinct, and they receive 20%, 50% and 30%, so that the listed
\* percentages add up to the stated total of 100%.
C20_DemoBlend ==
  ThreeDifferentOils =>
    /\ OneOfEachNote
    /\ PairwiseDistinct
    /\ PercentageOf("TOP") = {20}
    /\ PercentageOf("MIDDLE") = {50}
    /\ PercentageOf("BASE") = {30}
    /\ ListedTotal = calc.output.total

\* two compareSimilarity calls arrived while the one load was in progress
C21_Witness ==
  /\ prog = "Svc"
  /\ inflight.loads = 1
  /\ Len(llmService.queue) = 2

\* C21: the persistent service does not reload the model for each request:
\* for any interleaving of compareSimilarity and initialize calls at most one
\* model load is in progress at any time, and no load is in progress (so none
\* was started) while the model is loaded.
C21_OneLoadAtATime ==
  prog = "Svc" =>
    /\ inflight.loads <= 1
    /\ (llmService.isLoaded => inflight.loads = 0)
    /\ (inflight.loads = 1 => llmService.isLoading)

Settles(r) == inflight.promise[r] \in {"resolved", "rejected"}

\* C26: for every outcome of model loading, every request passed to
\* compareSimilarity eventually settles, resolved or rejected, requests that
\* were queued while the model was loading included.
C26_RequestsSettle ==
  \A r \in 1..MaxRequests : (inflight.promise[r] = "pending") ~> Settles(r)

\* C29: after shutdown() has completed the service stays not loaded until a
\* later initialize() is started, for any interleaving of shutdown with an
\* initialize in progress, and no request is run against the model after the
\* shutdown without a new load.
C29_ShutdownStays ==
  (prog = "Svc" /\ inflight.shutdownDone) =>
    /\ ~llmService.isLoaded
    /\ \A run \in inflight.runs : ~run.afterShutdown

\* the oracle processes of uncompleted invocations for the pair of p
PendingFor(p) ==
  { q \in inflight.processes :
      /\ q.state = "pending"
      /\ getSimilarityKey(q.oil1, q.oil2) = getSimilarityKey(p.oil1, p.oil2) }

\* C22: when getSimilarityScore is invoked for the same unordered pair, in
\* either argument order, before the first invocation has completed, the
\* cache's read-then-write is atomic per key: at most one oracle process is
\* spawned for the pair.
C22_OneProcessPerPair ==
  prog = "Conc" => \A p \in inflight.processes : Cardinality(PendingFor(p)) <= 1

\* the keys of the in-memory matrix that the cache file does not hold
Unflushed ==
  DOMAIN similarityMatrix.ent \ {member[1] : member \in cacheFile.sm.members}

\* C23: during generateSimilarityMatrix the cache is flushed every 5 new
\* entries: as long as no write has failed, at no point are there more than
\* 5 entries in the in-memory matrix that were added since the last flush,
\* whether they came from oracle results or from fallback values.
C23_FlushEveryFive ==
  (prog = "Many" /\ pc = "loop" /\ lastWrite # "failed") => Cardinality(Unflushed) <= 5

\* the mean of the squares of the entries (r, c) of dist, r in rows, c in cols
MeanOfSquares(dist, rows, cols) ==
  Div(Sum(SeqOf(LAMBDA r : Sum(SeqOf(LAMBDA c : Mul(dist[rows[r]][cols[c]],
                                                      dist[rows[r]][cols[c]]),
                                     Len(cols))),
                Len(rows))),
      FromInt(Len(rows) * Len(cols)))

AllOf(dist) == SeqOf(LAMBDA k : k, Len(dist))

\* -0.5 * (D[r][c]^2 - rowMean(D^2)[r] - colMean(D^2)[c] + grandMean(D^2))
DoubleCentered(dist, r, c) ==
  Mul(Neg(Fin(Fix \div 2)),
      Add(Sub(Sub(Mul(dist[r][c], dist[r][c]),
                  MeanOfSquares(dist, <<r>>, AllOf(dist))),
              MeanOfSquares(dist, AllOf(dist), <<c>>)),
          MeanOfSquares(dist, AllOf(dist), AllOf(dist))))

\* equal up to the rounding of the arithmetic
Near(a, b) == IsFinite(a) /\ IsFinite(b) /\ Abs(a.v - b.v) <= 3

\* C24: performMDS double-centers the squared distances: every entry (i, j)
\* of the matrix handed to the eigen-decomposition is
\* -0.5 * (D[i][j]^2 - rowMean(D^2)[i] - colMean(D^2)[j] + grandMean(D^2)).
C24_DoubleCentering ==
  calc.op = "centerDistanceMatrix" =>
    \A r, c \in 1..Len(calc.input) :
      Near(calc.output[r][c], DoubleCentered(calc.input, r, c))

\* the Euclidean distance between the two points of a two-item result
Realized ==
  Sqrt(Add(Mul(Sub(calc.output[1].x, calc.output[2].x), Sub(calc.output[1].x, calc.output[2].x)),
           Mul(Sub(calc.output[1].y, calc.output[2].y), Sub(calc.output[1].y, calc.output[2].y))))

\* 0.05
Tolerance == Fix \div 20

WithinTolerance ==
  IsFinite(Realized) /\ Abs(Realized.v - calc.input.d.v) <= Tolerance

\* C25: force-directed convergence: for two items with target distance d in
\* [0, 1] and any initial positions within the initial range, after the
\* loop's fixed number of iterations (200 in FastAIDemo, 100 in simpleMDS)
\* the Euclidean distance between the two points is within 0.05 of d.
C25_TwoItemsConverge ==
  calc.op \in {"twoItemLayout", "twoItemMDS"} => WithinTolerance

\* the values a 'close' event can produce for the generator that runs
CloseValues ==
  IF prog = "Fast" THEN {closeSimilarityFast(out) : out \in FNOutputs}
  ELSE {closeSimilarityNotes(out) : out \in FNOutputs}

\* the awaited invocation settles in this step
SettlesNow == pc = "awaiting" /\ pc' = "loop"

\* the value the settling event produced is what both keys of the pair hold
StoredByFirstEvent ==
  LET stored == similarities'[PairKey(call.oil1, call.oil2)]
      fallback == getFallbackSimilarity(call.oil1, call.oil2)
  IN  /\ lastEvent'.oil1 = call.oil1 /\ lastEvent'.oil2 = call.oil2
      /\ similarities'[PairKey(call.oil2, call.oil1)] = stored
      /\ CASE lastEvent'.kind \in {"timeout", "spawnError"} -> stored = fallback
           [] lastEvent'.kind = "exit0" -> stored \in CloseValues
           [] lastEvent'.kind = "exitN" ->
                IF prog = "Fast" THEN stored \in CloseValues ELSE stored = fallback
           [] OTHER -> FALSE

\* what was stored for other pairs is still there
OthersKept == \A k \in DOMAIN similarities : similarities'[k] = similarities[k]

\* a timer of a settled invocation is pending while a later pair is awaited
C27_Witness ==
  /\ prog \in {"Fast", "Notes"}
  /\ lateTimers /\ pc = "awaiting" /\ completed >= 1
  /\ lastEvent.kind \in {"exit0", "exitN", "spawnError"}

\* a step of the Fast or Notes generator stores once, when the awaited
\* invocation settles, and otherwise leaves the stored similarities alone
StoresOncePerInvocation ==
  prog \in {"Fast", "Notes"} =>
    /\ SettlesNow => (StoredByFirstEvent /\ OthersKept /\ completed' = completed + 1)
    /\ (~SettlesNow /\ pc' # "done") => similarities' = similarities

\* C27: each oracle invocation of getLLMSimilarity / getLLMNoteSimilarity
\* settles exactly once: the value stored for the pair is the one produced by
\* whichever of close, spawn error and timeout occurs first, and a later
\* event, a timer that fires while a later pair is processed included,
\* changes no stored similarity.
C27_SettlesOnce == [][StoresOncePerInvocation]_vars

\* the scores between 0 and 1, both included, that the oracle process reports
ScoresInRange == {x \in Scores : ~x.nan /\ 0 <= x.v /\ x.v <= Unit}

\* this step is FastAIDemo's 'close' handler for an output whose
\* SIMILARITY_RESULT line reports v
ClosesReporting(v) ==
  /\ prog = "Fast" /\ pc = "awaiting" /\ call.fate = "exits"
  /\ lastEvent'.kind \in {"exit0", "exitN"} /\ lastEvent'.out = "line"
  /\ StorePair(closeSimilarityFast(ScoreLine(v)))

StoredUnderBothKeys(v) ==
  /\ similarities'[PairKey(call.oil1, call.oil2)] = v
  /\ similarities'[PairKey(call.oil2, call.oil1)] = v

ReportedScoreStored(scores) ==
  \A v \in scores : ClosesReporting(v) => StoredUnderBothKeys(v)

\* C28: when the oracle process reports a score v with 0 <= v <= 1, both
\* bounds included, on a SIMILARITY_RESULT line, the similarity FastAIDemo
\* stores for the pair, under both key orders, equals v.
C28_ReportedScoreStored == [][ReportedScoreStored(ScoresInRange)]_vars

\* the data file of a run over n items has been written
DataWritten == prog \in {"Fast", "Notes"} /\ calc.op = "writeData"

\* the fraction is the whole number k
IsWhole(q, k) == q.num = k * q.den

\* C30: the metadata.totalComparisons value written with the embedding equals
\* the number of pairwise oracle comparisons performed, n(n-1)/2 for a run
\* over n items, and is therefore an integer.
C30_TotalComparisons ==
  DataWritten =>
    /\ completed = (nOils * (nOils - 1)) \div 2
    /\ IsWhole(calc.output.totalComparisons, completed)
    /\ calc.output.totalComparisons.num % calc.output.totalComparisons.den = 0

=============================================================================
